---- MODULE Spec2Model ----
(***************************************************************************)
(* Model of index.js v5.1 (Figma -> SCSS): the slug generator, the colour  *)
(* formatter, the frame walker, the style / variable resolvers and the     *)
(* update action.  Strings are sequences of one-character strings, so that *)
(* trimming, splitting, slugging and formatting are computed, not assumed. *)
(***************************************************************************)
EXTENDS Integers, Sequences, FiniteSets, TLC

VARIABLES
    slugInput,      \* argument of buildSlugCandidates / buildVarSlugCandidates
    slugOut,        \* the candidate list returned
    slugPc,         \* "call" before the call, "done" after it
    frame,          \* the document traverseFrame walks
    walkAcc,        \* the traversal accumulator
    walkPc,         \* "call" before the walk, "done" after it
    aliasMap,       \* the variable catalog resolveVariableAlias reads
    aliasStart,     \* the value first passed to resolveVariableAlias
    aliasValue,     \* the value argument of the current invocation
    aliasDepth,     \* the depth argument of the current invocation
    aliasResult,    \* the value returned
    aliasPc,        \* "run" while an invocation is pending, "done" after the return
    updPc,          \* the position of actionUpdateScss
    updFrame,       \* frame
    updAcc,         \* acc
    updStyleTokens, \* styleTokens
    updVariableTokens, \* variableTokens
    updMeta,        \* the variables collectVariableTokens fetched
    updFetches,     \* history: the requests made, in order, and how they ended
    scssFile,       \* the stylesheet file
    bakFile,        \* the backup copy <path>.bak
    updContent,     \* scssContent
    updUpdates,     \* updates
    scssWrites,     \* history: the number of writes of the stylesheet file
    updError,       \* the message of the error the run ended with
    fnName,         \* the function a direct call applies
    fnArgs,         \* its arguments
    fnResult,       \* the value it returned
    fnPc,           \* "call" before the call, "done" after it
    retryAttempts,  \* argument attempts of fetchWithRetry
    retryDelayMs,   \* argument delayMs
    retryAttempt,   \* the loop variable attempt
    retryPc,        \* the position of fetchWithRetry
    retryInFlight,  \* the number of fetch calls not yet settled
    retryCalls,     \* history: the fetch calls made, in order, each with its response
    retryWaits,     \* history: the sleeps, each with the attempt it followed
    retryOutcome,   \* the response returned or the error thrown
    fontFound,      \* the font usages the traversal recorded, in discovery order
    fontKeys,       \* fontKeys, the keys family::weight::italic of acc.fonts
    fontUsages,     \* usages, one per family, in insertion order
    fontIndex,      \* the number of usages the download loop has processed
    fontAttempts,   \* history: the families attempted, each with its outcome
    fontManualSet,  \* manualSet
    fontDownloaded, \* downloadedFamilies
    fontPc,         \* the position of actionFonts
    fontResult,     \* the counts returned
    iconNodes,      \* argument iconNodes of exportIcons
    iconUsed,       \* usedNames
    iconRows,       \* rows; svg keeps the status the SVG attempt gave
    iconOk,         \* okCount
    iconMap,        \* the images map of the last answer of the images endpoint
    iconIndex,      \* the number of nodes or rows the current loop has processed
    iconRetries,    \* history: the PNG attempts, each with its row and the node id it used
    iconPc,         \* the position of exportIcons
    iconResult      \* the value returned

slugVars == <<slugInput, slugOut, slugPc>>
walkVars == <<frame, walkAcc, walkPc>>
aliasVars == <<aliasMap, aliasStart, aliasValue, aliasDepth, aliasResult, aliasPc>>
updateVars == <<updPc, updFrame, updAcc, updStyleTokens, updVariableTokens, updMeta, updFetches,
                scssFile, bakFile, updContent, updUpdates, scssWrites, updError>>

fnVars == <<fnName, fnArgs, fnResult, fnPc>>
retryVars == <<retryAttempts, retryDelayMs, retryAttempt, retryPc, retryInFlight, retryCalls, retryWaits, retryOutcome>>
fontVars == <<fontFound, fontKeys, fontUsages, fontIndex, fontAttempts, fontManualSet, fontDownloaded, fontPc, fontResult>>
iconVars == <<iconNodes, iconUsed, iconRows, iconOk, iconMap, iconIndex, iconRetries, iconPc, iconResult>>
auxVars == <<fnVars, retryVars, fontVars, iconVars>>

\* what each machine leaves alone
notSlugVars == <<walkVars, aliasVars, updateVars, auxVars>>
notWalkVars == <<slugVars, aliasVars, updateVars, auxVars>>
notAliasVars == <<slugVars, walkVars, updateVars, auxVars>>
notUpdateVars == <<slugVars, walkVars, aliasVars, auxVars>>
notFnVars == <<slugVars, walkVars, aliasVars, updateVars, retryVars, fontVars, iconVars>>
notIconVars == <<slugVars, walkVars, aliasVars, updateVars, fnVars, retryVars, fontVars>>
notFontVars == <<slugVars, walkVars, aliasVars, updateVars, fnVars, retryVars, iconVars>>
notRetryVars == <<slugVars, walkVars, aliasVars, updateVars, fnVars, fontVars, iconVars>>

vars == <<slugInput, slugOut, slugPc, frame, walkAcc, walkPc,
          aliasMap, aliasStart, aliasValue, aliasDepth, aliasResult, aliasPc,
          updPc, updFrame, updAcc, updStyleTokens, updVariableTokens, updMeta, updFetches,
          scssFile, bakFile, updContent, updUpdates, scssWrites, updError,
          fnName, fnArgs, fnResult, fnPc,
          retryAttempts, retryDelayMs, retryAttempt, retryPc, retryInFlight, retryCalls, retryWaits, retryOutcome,
          fontFound, fontKeys, fontUsages, fontIndex, fontAttempts, fontManualSet, fontDownloaded, fontPc, fontResult,
          iconNodes, iconUsed, iconRows, iconOk, iconMap, iconIndex, iconRetries, iconPc, iconResult>>

(***************************************************************************)
(* Characters and strings                                                  *)
(***************************************************************************)
LowerSeq == <<"a","b","c","d","e","f","g","h","i","j","k","l","m","n","o","p","q","r","s","t","u","v","w","x","y","z">>
UpperSeq == <<"A","B","C","D","E","F","G","H","I","J","K","L","M","N","O","P","Q","R","S","T","U","V","W","X","Y","Z">>
DigitSeq == <<"0","1","2","3","4","5","6","7","8","9">>

Range(s) == {s[i] : i \in 1..Len(s)}

IsAlpha(c) == c \in Range(LowerSeq) \cup Range(UpperSeq)
IsDigit(c) == c \in Range(DigitSeq)
IsAlnum(c) == IsAlpha(c) \/ IsDigit(c)
\* \s of the regular expressions, on the alphabet of the model
IsSpace(c) == c \in {" ", "\n", "\t"}

ToLowerChar(c) ==
    IF c \in Range(UpperSeq)
    THEN LowerSeq[CHOOSE i \in 1..Len(UpperSeq) : UpperSeq[i] = c]
    ELSE c

ToLower(s) == [i \in 1..Len(s) |-> ToLowerChar(s[i])]

\* String.prototype.trim
Trim(s) ==
    LET keep == {i \in 1..Len(s) : ~IsSpace(s[i])}
    IN  IF keep = {} THEN <<>>
        ELSE LET lo == CHOOSE i \in keep : \A j \in keep : i <= j
                 hi == CHOOSE i \in keep : \A j \in keep : i >= j
             IN  SubSeq(s, lo, hi)

RECURSIVE Join(_, _)
Join(parts, sep) ==
    IF parts = <<>> THEN <<>>
    ELSE IF Len(parts) = 1 THEN parts[1]
    ELSE parts[1] \o sep \o Join(Tail(parts), sep)

RECURSIVE FlatMapSeq(_)
FlatMapSeq(ss) == IF ss = <<>> THEN <<>> ELSE ss[1] \o FlatMapSeq(Tail(ss))

\* s.replace(/\s+/g, rep): every maximal run of white space becomes rep
RECURSIVE ReplaceSpaceRuns(_, _)
ReplaceSpaceRuns(s, rep) ==
    IF s = <<>> THEN <<>>
    ELSE IF IsSpace(s[1])
         THEN IF Len(s) > 1 /\ IsSpace(s[2])
              THEN ReplaceSpaceRuns(Tail(s), rep)
              ELSE rep \o ReplaceSpaceRuns(Tail(s), rep)
         ELSE <<s[1]>> \o ReplaceSpaceRuns(Tail(s), rep)

StartsWith(s, p) == Len(s) >= Len(p) /\ SubSeq(s, 1, Len(p)) = p

Contains(s, p) == \E i \in 1..(Len(s) - Len(p) + 1) : SubSeq(s, i, i + Len(p) - 1) = p

\* s.split(/c+/).filter(Boolean) for one separator character c
RECURSIVE SplitOn(_, _, _)
SplitOn(s, c, cur) ==
    IF s = <<>> THEN (IF cur = <<>> THEN <<>> ELSE <<cur>>)
    ELSE IF s[1] = c
         THEN (IF cur = <<>> THEN <<>> ELSE <<cur>>) \o SplitOn(Tail(s), c, <<>>)
         ELSE SplitOn(Tail(s), c, Append(cur, s[1]))

(***************************************************************************)
(* slug                                                                    *)
(***************************************************************************)
SlugChar(c) == IsAlnum(c) \/ c = "_" \/ c = "-"

\* .replace(/[^a-zA-Z0-9_\-]+/g, "-")
RECURSIVE ReplaceBadRuns(_)
ReplaceBadRuns(s) ==
    IF s = <<>> THEN <<>>
    ELSE IF ~SlugChar(s[1])
         THEN IF Len(s) > 1 /\ ~SlugChar(s[2])
              THEN ReplaceBadRuns(Tail(s))
              ELSE <<"-">> \o ReplaceBadRuns(Tail(s))
         ELSE <<s[1]>> \o ReplaceBadRuns(Tail(s))

\* .replace(/-{2,}/g, "-")
RECURSIVE CollapseHyphens(_)
CollapseHyphens(s) ==
    IF s = <<>> THEN <<>>
    ELSE IF s[1] = "-" /\ Len(s) > 1 /\ s[2] = "-"
         THEN CollapseHyphens(Tail(s))
         ELSE <<s[1]>> \o CollapseHyphens(Tail(s))

\* .replace(/^-+|-+$/g, "")
StripHyphens(s) ==
    LET keep == {i \in 1..Len(s) : s[i] # "-"}
    IN  IF keep = {} THEN <<>>
        ELSE LET lo == CHOOSE i \in keep : \A j \in keep : i <= j
                 hi == CHOOSE i \in keep : \A j \in keep : i >= j
             IN  SubSeq(s, lo, hi)

W_node == <<"n","o","d","e">>

\* The alphabet of the model has no character that NFKD decomposes, so the
\* normalize / combining-mark steps leave the string as it is.
SlugNoFallback(s) == ToLower(StripHyphens(CollapseHyphens(ReplaceBadRuns(Trim(s)))))

slug(s) == IF SlugNoFallback(s) = <<>> THEN W_node ELSE SlugNoFallback(s)

(***************************************************************************)
(* Name normaliser                                                         *)
(***************************************************************************)
W_rectangle == <<"r","e","c","t","a","n","g","l","e">>
W_rect == <<"r","e","c","t">>
W_frame == <<"f","r","a","m","e">>
W_auto_layout == <<"a","u","t","o"," ","l","a","y","o","u","t">>
W_group == <<"g","r","o","u","p">>
W_component == <<"c","o","m","p","o","n","e","n","t">>
W_component_set == <<"c","o","m","p","o","n","e","n","t"," ","s","e","t">>
W_instance == <<"i","n","s","t","a","n","c","e">>
W_vector == <<"v","e","c","t","o","r">>
W_ellipse == <<"e","l","l","i","p","s","e">>
W_line == <<"l","i","n","e">>
W_text == <<"t","e","x","t">>

GENERIC_NODE_NAMES ==
    {W_rectangle, W_rect, W_frame, W_auto_layout, W_group, W_component,
     W_component_set, W_instance, W_vector, W_ellipse, W_line, W_text}

NonEmpty(s) == s # <<>>

normalizePathNames(names) ==
    LET trimmed == [i \in 1..Len(names) |-> Trim(names[i])]
        kept    == SelectSeq(trimmed, NonEmpty)
    IN  [i \in 1..Len(kept) |-> ReplaceSpaceRuns(kept[i], <<" ">>)]

BracketOrDot(c) == c \in {"(", ")", "{", "}", "[", "]", ".", "_"}

\* the two inserts /([a-zA-Z])(\d)/ and /(\d)([a-zA-Z])/ put a space at every
\* letter-digit and digit-letter boundary
RECURSIVE SplitLetterDigit(_)
SplitLetterDigit(s) ==
    IF Len(s) <= 1 THEN s
    ELSE IF (IsAlpha(s[1]) /\ IsDigit(s[2])) \/ (IsDigit(s[1]) /\ IsAlpha(s[2]))
         THEN <<s[1], " ">> \o SplitLetterDigit(Tail(s))
         ELSE <<s[1]>> \o SplitLetterDigit(Tail(s))

\* .split(/[^a-zA-Z0-9]+/).filter(Boolean)
RECURSIVE SplitAlnum(_, _)
SplitAlnum(s, cur) ==
    IF s = <<>> THEN (IF cur = <<>> THEN <<>> ELSE <<cur>>)
    ELSE IF IsAlnum(s[1])
         THEN SplitAlnum(Tail(s), Append(cur, s[1]))
         ELSE (IF cur = <<>> THEN <<>> ELSE <<cur>>) \o SplitAlnum(Tail(s), <<>>)

splitSegmentIntoTokens(segment) ==
    LET trimmed    == Trim(segment)
        spaced     == [i \in 1..Len(trimmed) |->
                          IF BracketOrDot(trimmed[i]) THEN " " ELSE trimmed[i]]
        normalized == SplitLetterDigit(spaced)
        tokens     == SplitAlnum(normalized, <<>>)
    IN  IF trimmed = <<>> THEN <<>>
        ELSE IF tokens # <<>> THEN tokens ELSE <<trimmed>>

\* the sequence of addSlug calls: every contiguous slice, then every pair
Slices(exploded) ==
    LET n == Len(exploded)
        RECURSIVE From(_, _)
        From(start, end) ==
            IF start > n THEN <<>>
            ELSE IF end > n THEN From(start + 1, start + 1)
            ELSE <<SubSeq(exploded, start, end)>> \o From(start, end + 1)
    IN  From(1, 1)

\* a generator without the pairwise combinations
NoPairs(exploded) == <<>>

Pairs(exploded) ==
    LET n == Len(exploded)
        RECURSIVE From(_, _)
        From(i, j) ==
            IF i > n - 1 THEN <<>>
            ELSE IF j > n THEN From(i + 1, i + 2)
            ELSE <<(<<exploded[i], exploded[j]>>)>> \o From(i, j + 1)
    IN  IF n >= 2 THEN From(1, 2) ELSE <<>>

addSlug(parts) == slug(Join(SelectSeq(parts, NonEmpty), <<" ">>))

\* the slugs in the order addSlug is called with them
GeneratedSlugs(exploded) ==
    LET calls == Slices(exploded) \o Pairs(exploded)
    IN  [i \in 1..Len(calls) |-> addSlug(calls[i])]

\* Array.from(new Set(..)): first occurrences, in insertion order
RECURSIVE Dedup(_, _)
Dedup(s, seen) ==
    IF s = <<>> THEN <<>>
    ELSE IF s[1] \in seen THEN Dedup(Tail(s), seen)
    ELSE <<s[1]>> \o Dedup(Tail(s), seen \cup {s[1]})

MaxLenOf(s) == IF s = <<>> THEN 0
               ELSE LET L == {Len(s[i]) : i \in 1..Len(s)}
                    IN  CHOOSE m \in L : \A k \in L : k <= m

\* a reversed comparator, (a, b) => a.length - b.length
SortByLengthAsc(s) ==
    LET RECURSIVE Up(_)
        Up(len) ==
            IF len > MaxLenOf(s) THEN <<>>
            ELSE SelectSeq(s, LAMBDA x : Len(x) = len) \o Up(len + 1)
    IN  Up(0)

\* .sort((a, b) => b.length - a.length): Array.prototype.sort is stable
SortByLengthDesc(s) ==
    LET RECURSIVE Down(_)
        Down(len) ==
            IF len < 0 THEN <<>>
            ELSE SelectSeq(s, LAMBDA x : Len(x) = len) \o Down(len - 1)
    IN  Down(MaxLenOf(s))

\* cleaned.flatMap(splitSegmentIntoTokens) of the trimmed, non-empty segments
ExplodedTokens(segments) ==
    LET trimmed == [i \in 1..Len(segments) |-> Trim(segments[i])]
        cleaned == SelectSeq(trimmed, NonEmpty)
    IN  FlatMapSeq([i \in 1..Len(cleaned) |-> splitSegmentIntoTokens(cleaned[i])])

collectSlugVariants(segments) ==
    LET exploded == ExplodedTokens(segments)
    IN  IF exploded = <<>> THEN <<>>
        ELSE SortByLengthDesc(Dedup(GeneratedSlugs(exploded), {}))

\* a filter that takes no name for generic
NothingGeneric(name) == FALSE

IsGenericName(name) == ToLower(name) \in GENERIC_NODE_NAMES

NotGeneric(name) == ~IsGenericName(name)

\* only the segments that are not generic names, without the fall-back
MeaningfulOnly(names) == SelectSeq(normalizePathNames(names), NotGeneric)

\* the segments buildSlugCandidates hands to collectSlugVariants
PathSegments(names) ==
    LET normalized == normalizePathNames(names)
        meaningful == SelectSeq(normalized, NotGeneric)
    IN  IF meaningful # <<>> THEN meaningful ELSE normalized

buildSlugCandidates(names) ==
    IF normalizePathNames(names) = <<>> THEN <<>>
    ELSE collectSlugVariants(PathSegments(names))

\* the pieces buildVarSlugCandidates hands to collectSlugVariants
VarPieces(varName) ==
    LET noPrefix == IF StartsWith(varName, <<"-", "-">>)
                    THEN SubSeq(varName, 3, Len(varName)) ELSE varName
        hyphened == [i \in 1..Len(noPrefix) |->
                        IF noPrefix[i] = "_" THEN "-" ELSE noPrefix[i]]
        clean    == ReplaceSpaceRuns(hyphened, <<"-">>)
    IN  SplitOn(clean, "-", <<>>)

buildVarSlugCandidates(varName) ==
    IF VarPieces(varName) = <<>> THEN <<>>
    ELSE collectSlugVariants(VarPieces(varName))

(***************************************************************************)
(* Numbers.  A JavaScript number is a fraction <<n, d>> in lowest terms,   *)
(* d > 0; a missing or non-numeric field is Undef.  The inputs of the      *)
(* model are dyadic fractions, which doubles hold exactly, so the products *)
(* and roundings below are the ones the program computes.                  *)
(***************************************************************************)
Undef == <<>>
Zero == <<0, 1>>
One == <<1, 1>>

Abs(n) == IF n < 0 THEN -n ELSE n

RECURSIVE GCD(_, _)
GCD(a, b) == IF b = 0 THEN a ELSE GCD(b, a % b)

Norm(x) == LET g == GCD(Abs(x[1]), x[2]) IN <<x[1] \div g, x[2] \div g>>

Mul(a, b) == Norm(<<a[1] * b[1], a[2] * b[2]>>)

Lt(a, b) == a[1] * b[2] < b[1] * a[2]

Leq(a, b) == a[1] * b[2] <= b[1] * a[2]

FromInt(n) == <<n, 1>>

\* Math.round: the nearest integer, halves towards +Infinity
MathRound(x) == (2 * x[1] + x[2]) \div (2 * x[2])

RECURSIVE NatToStr(_)
NatToStr(n) ==
    IF n < 10 THEN <<DigitSeq[n + 1]>>
    ELSE NatToStr(n \div 10) \o <<DigitSeq[(n % 10) + 1]>>

\* String(n) of an integer
IntToStr(n) == IF n < 0 THEN <<"-">> \o NatToStr(-n) ELSE NatToStr(n)

HexDigitSeq == <<"0","1","2","3","4","5","6","7","8","9","a","b","c","d","e","f">>

RECURSIVE NatToHex(_)
NatToHex(n) ==
    IF n < 16 THEN <<HexDigitSeq[n + 1]>>
    ELSE NatToHex(n \div 16) \o <<HexDigitSeq[(n % 16) + 1]>>

\* v.toString(16)
IntToHex(v) == IF v < 0 THEN <<"-">> \o NatToHex(-v) ELSE NatToHex(v)

\* x.toFixed(3) as a count of thousandths: the nearest, ties to the larger
\* magnitude, for x >= 0
Thousandths(x) == (2 * 1000 * x[1] + x[2]) \div (2 * x[2])

RECURSIVE StripTrailingZeros(_)
StripTrailingZeros(s) ==
    IF s # <<>> /\ s[Len(s)] = "0" THEN StripTrailingZeros(SubSeq(s, 1, Len(s) - 1)) ELSE s

\* String(t / 1000) for t >= 0
ThousandthsToStr(t) ==
    LET frac   == t % 1000
        digits == <<DigitSeq[(frac \div 100) + 1], DigitSeq[((frac \div 10) % 10) + 1],
                    DigitSeq[(frac % 10) + 1]>>
    IN  IF frac = 0 THEN NatToStr(t \div 1000)
        ELSE NatToStr(t \div 1000) \o <<".">> \o StripTrailingZeros(digits)

\* `${Number(x.toFixed(3))}`
Fixed3ToStr(x) ==
    IF x[1] >= 0 THEN ThousandthsToStr(Thousandths(x))
    ELSE LET t == Thousandths(<<-x[1], x[2]>>)
         IN  IF t = 0 THEN <<"0">> ELSE <<"-">> \o ThousandthsToStr(t)

(***************************************************************************)
(* Colour / value formatter                                                *)
(***************************************************************************)
NULL == <<"null">>
NoColor == [absent |-> TRUE]

\* x ?? 0, times 255, rounded
to255(x) == MathRound(Mul(IF x = Undef THEN Zero ELSE x, FromInt(255)))

hex2(v) == LET h == IntToHex(v) IN IF Len(h) < 2 THEN <<"0">> \o h ELSE h

clamp01(n) ==
    IF n = Undef THEN Zero
    ELSE IF Lt(n, Zero) THEN Zero
    ELSE IF Lt(One, n) THEN One
    ELSE n

\* the effective alpha rgbaOrHex formats
EffectiveAlpha(color, alphaOverride) ==
    clamp01(IF alphaOverride # Undef THEN alphaOverride
            ELSE IF color.a # Undef THEN color.a
            ELSE One)

rgbaOrHex(color, alphaOverride) ==
    IF color = NoColor THEN NULL
    ELSE LET a == EffectiveAlpha(color, alphaOverride)
             r == to255(color.r)
             g == to255(color.g)
             b == to255(color.b)
         IN  IF Lt(a, One)
             THEN <<"r","g","b","a","(">> \o IntToStr(r) \o <<",", " ">> \o IntToStr(g)
                      \o <<",", " ">> \o IntToStr(b) \o <<",", " ">> \o Fixed3ToStr(a) \o <<")">>
             ELSE <<"#">> \o hex2(r) \o hex2(g) \o hex2(b)

\* n || 0, rounded, with the unit
px(n) == IntToStr(MathRound(IF n = Undef THEN Zero ELSE n)) \o <<"p", "x">>

wrapRem(pxVal, isDesktop) ==
    IF isDesktop
    THEN <<"#","{","r","e","m","D","(">> \o pxVal \o <<")", "}">>
    ELSE <<"#","{","r","e","m","(">> \o pxVal \o <<")", "}">>

formatUnitless(num) == IF num = Undef THEN NULL ELSE Fixed3ToStr(num)

NoStyle == [absent |-> TRUE]

\* lineHeightPercentFontSize is a number in the model
\* a formatter that knows the pixel line height only
formatLineHeightPxOnly(style, isDesktop) ==
    IF style = NoStyle THEN NULL
    ELSE IF style.lineHeightPx # Undef /\ Lt(Zero, style.lineHeightPx)
    THEN wrapRem(px(style.lineHeightPx), isDesktop)
    ELSE NULL

formatLineHeight(style, isDesktop) ==
    IF style = NoStyle THEN NULL
    ELSE IF style.lineHeightPx # Undef /\ Lt(Zero, style.lineHeightPx)
    THEN wrapRem(px(style.lineHeightPx), isDesktop)
    ELSE IF style.lineHeightPercentFontSize # Undef /\ style.lineHeightPercentFontSize # Zero
    THEN formatUnitless(Mul(style.lineHeightPercentFontSize, <<1, 100>>))
    ELSE NULL

(***************************************************************************)
(* Token maps and the traversal accumulator                                *)
(***************************************************************************)
EmptyMap == <<>>

\* a write that leaves the slugs that already hold a value alone
assignIfAbsent(map, slugs, value) ==
    IF slugs = <<>> \/ value = NULL THEN map
    ELSE map @@ [k \in {slugs[i] : i \in 1..Len(slugs)} \ {<<>>} |-> value]

assignValueBySlug(map, slugs, value) ==
    IF slugs = <<>> \/ value = NULL THEN map
    ELSE [k \in {slugs[i] : i \in 1..Len(slugs)} \ {<<>>} |-> value] @@ map

\* log is a history of the writes to the four maps and to fonts: the place of
\* the node in the frame, the kind and the value written
createTraversalAccumulator ==
    [colorsBySlug |-> EmptyMap, fontSizeBySlug |-> EmptyMap,
     lineHeightBySlug |-> EmptyMap, shadowsBySlug |-> EmptyMap,
     fonts |-> <<>>, iconNodes |-> <<>>, log |-> <<>>]

emptyStyleTokens ==
    [colorsBySlug |-> EmptyMap, fontSizeBySlug |-> EmptyMap,
     lineHeightBySlug |-> EmptyMap, shadowsBySlug |-> EmptyMap]

(***************************************************************************)
(* traverseFrame                                                           *)
(***************************************************************************)
NoNode == [absent |-> TRUE]
NoOffset == [absent |-> TRUE]

\* effectiveOpacity * paintOpacity * colorAlpha with the inherited factor left out
composeAlphaNoInherited(effectiveOpacity, paintOpacity, colorAlpha) ==
    clamp01(Mul(paintOpacity, colorAlpha))

composeAlpha(effectiveOpacity, paintOpacity, colorAlpha) ==
    clamp01(Mul(Mul(effectiveOpacity, paintOpacity), colorAlpha))

effectiveNodeOpacity(node) == clamp01(IF node.opacity # Undef THEN node.opacity ELSE One)

OrOne(x) == IF x # Undef THEN x ELSE One

IsGradient(type) == type \in {"GRADIENT_LINEAR", "GRADIENT_RADIAL", "GRADIENT_ANGULAR", "GRADIENT_DIAMOND"}

\* the colours one paint of a fill or stroke list contributes, in order, each
\* with its place <<list, index of the paint, index of the gradient stop or 0>>
PaintContributions(f, list, i, cumulativeOpacity) ==
    IF f.visible = FALSE THEN <<>>
    ELSE LET paintOpacity == clamp01(OrOne(f.opacity))
         IN  IF f.type = "SOLID" /\ f.color # NoColor
             THEN << [value |-> rgbaOrHex(f.color,
                                  composeAlpha(cumulativeOpacity, paintOpacity, OrOne(f.color.a))),
                      at |-> <<list, i, 0>>] >>
             ELSE IF IsGradient(f.type)
             THEN LET stops == f.gradientStops
                      with  == {k \in 1..Len(stops) : stops[k].color # NoColor}
                      RECURSIVE Stops(_)
                      Stops(k) ==
                          IF k > Len(stops) THEN <<>>
                          ELSE (IF k \in with
                                THEN << [value |-> rgbaOrHex(stops[k].color,
                                                    composeAlpha(cumulativeOpacity, paintOpacity,
                                                                 OrOne(stops[k].color.a))),
                                         at |-> <<list, i, k>>] >>
                                ELSE <<>>) \o Stops(k + 1)
                  IN  Stops(1)
             ELSE <<>>

PaintListContributions(paints, list, cumulativeOpacity) ==
    FlatMapSeq([i \in 1..Len(paints) |->
                   PaintContributions(paints[i], list, i, cumulativeOpacity)])

IsShadow(e) == e.visible # FALSE /\ e.type \in {"DROP_SHADOW", "INNER_SHADOW"}

\* [offX, offY, blur, col].join(" "): a null colour joins as the empty string
ShadowPart(e, cumulativeOpacity) ==
    LET offX == px(IF e.offset = NoOffset THEN Zero ELSE e.offset.x)
        offY == px(IF e.offset = NoOffset THEN Zero ELSE e.offset.y)
        blur == px(e.radius)
        effectAlpha == composeAlpha(cumulativeOpacity, One,
                                    IF e.color = NoColor THEN One ELSE OrOne(e.color.a))
        col  == rgbaOrHex(e.color, effectAlpha)
    IN  Join(<<offX, offY, blur, IF col = NULL THEN <<>> ELSE col>>, <<" ">>)

ShadowValue(effects, cumulativeOpacity) ==
    LET shadows == SelectSeq(effects, IsShadow)
    IN  IF shadows = <<>> THEN NULL
        ELSE Join([i \in 1..Len(shadows) |-> ShadowPart(shadows[i], cumulativeOpacity)],
                  <<",", " ">>)

ContainsAny(s, words) == \E w \in words : Contains(s, w)

guessWeightFromName(name) ==
    LET n == ToLower(name)
    IN  IF Contains(n, <<"t","h","i","n">>) THEN 100
        ELSE IF ContainsAny(n, {<<"e","x","t","r","a","l","i","g","h","t">>,
                                <<"u","l","t","r","a","l","i","g","h","t">>}) THEN 200
        ELSE IF Contains(n, <<"l","i","g","h","t">>) THEN 300
        ELSE IF ContainsAny(n, {<<"r","e","g","u","l","a","r">>, <<"b","o","o","k">>,
                                <<"n","o","r","m","a","l">>}) THEN 400
        ELSE IF Contains(n, <<"m","e","d","i","u","m">>) THEN 500
        ELSE IF ContainsAny(n, {<<"s","e","m","i","b","o","l","d">>,
                                <<"d","e","m","i","b","o","l","d">>}) THEN 600
        ELSE IF Contains(n, <<"b","o","l","d">>) THEN 700
        ELSE IF ContainsAny(n, {<<"e","x","t","r","a","b","o","l","d">>,
                                <<"u","l","t","r","a","b","o","l","d">>}) THEN 800
        ELSE IF ContainsAny(n, {<<"b","l","a","c","k">>, <<"h","e","a","v","y">>}) THEN 900
        ELSE 400

ICON_NAME_WORDS ==
    { <<"i","c","o","n">>, <<"i","c","n">>, <<"g","l","y","p","h">>, <<"l","o","g","o">>,
      <<"a","r","r","o","w">>, <<"c","h","e","v","r","o","n">>, <<"c","l","o","s","e">>,
      <<"b","u","r","g","e","r">>, <<"m","e","n","u">>, <<"p","l","a","y">>,
      <<"p","a","u","s","e">>, <<"c","a","r","t">>, <<"s","e","a","r","c","h">>,
      <<"u","s","e","r">>, <<"h","e","a","r","t">>, <<"p","l","u","s">>,
      <<"m","i","n","u","s">>, <<"s","t","a","r">> }

ICON_TYPES ==
    {"VECTOR", "BOOLEAN_OPERATION", "STAR", "LINE", "ELLIPSE", "POLYGON", "RECTANGLE",
     "REGULAR_POLYGON", "INSTANCE", "COMPONENT", "COMPONENT_SET", "FRAME", "GROUP"}

IsIconCandidate(node) ==
    (node.name # <<>> /\ ContainsAny(ToLower(node.name), ICON_NAME_WORDS))
        \/ node.type \in ICON_TYPES

W_desktop == <<"d","e","s","k","t","o","p">>

HasFontSize(style) == style.fontSize # Undef /\ Lt(Zero, style.fontSize)

\* a test that takes no text for desktop text
NeverDesktop(pathHint, style) == FALSE

\* pathHint.includes("desktop") || (hasFontSize && fontSize >= 20)
IsDesktopText(pathHint, style) ==
    Contains(pathHint, W_desktop) \/ (HasFontSize(style) /\ Leq(FromInt(20), style.fontSize))

\* Set.add of the key family::weight::italic
AddFont(fonts, key) == IF key \in Range(fonts) THEN fonts ELSE Append(fonts, key)

\* the visibility test with the check left out
IsHiddenNever(node) == FALSE

IsHidden(node) == node.visible = FALSE

\* what one visited node writes, in the order of the code: fills, strokes,
\* font size, line height, shadow
ColourWrites(colours) ==
    [i \in 1..Len(colours) |->
        [kind |-> "color", value |-> colours[i].value, at |-> colours[i].at]]

\* if (hasFontSize) assignValueBySlug(acc.fontSizeBySlug, ..)
FontSizeWrite(style, isDesktop) ==
    IF HasFontSize(style)
    THEN << [kind |-> "fontSize", value |-> wrapRem(px(style.fontSize), isDesktop),
             at |-> <<"style", 0, 0>>] >>
    ELSE <<>>

\* if (lineHeight) assignValueBySlug(acc.lineHeightBySlug, ..), and the same
\* for the joined shadow parts
WriteUnlessNull(kind, value, list) ==
    IF value # NULL THEN << [kind |-> kind, value |-> value, at |-> <<list, 0, 0>>] >>
    ELSE <<>>

TextWrites(style, isDesktop) ==
    FontSizeWrite(style, isDesktop)
        \o WriteUnlessNull("lineHeight", formatLineHeight(style, isDesktop), "style")

NodeContributions(node, pathHint, cumulativeOpacity) ==
    ColourWrites(PaintListContributions(node.fills, "fills", cumulativeOpacity)
                     \o PaintListContributions(node.strokes, "strokes", cumulativeOpacity))
        \o (IF node.type = "TEXT" /\ node.style # NoStyle
            THEN TextWrites(node.style, IsDesktopText(pathHint, node.style))
            ELSE <<>>)
        \o WriteUnlessNull("shadow", ShadowValue(node.effects, cumulativeOpacity), "effects")

MapOfKind(kind) ==
    CASE kind = "color" -> "colorsBySlug"
      [] kind = "fontSize" -> "fontSizeBySlug"
      [] kind = "lineHeight" -> "lineHeightBySlug"
      [] kind = "shadow" -> "shadowsBySlug"

RECURSIVE ApplyContributions(_, _, _, _)
ApplyContributions(acc, contribs, slugHints, path) ==
    IF contribs = <<>> THEN acc
    ELSE ApplyContributions(
             [acc EXCEPT ![MapOfKind(contribs[1].kind)] =
                             assignValueBySlug(@, slugHints, contribs[1].value),
                         !.log = IF slugHints = <<>> THEN @
                                 ELSE Append(@, [node |-> path, kind |-> contribs[1].kind,
                                                 value |-> contribs[1].value,
                                                 at |-> contribs[1].at])],
             Tail(contribs), slugHints, path)

\* Number(fontWeight) || guessWeightFromName(node.name || "")
FontOf(node) ==
    [family |-> node.style.fontFamily,
     weight |-> IF node.style.fontWeight # 0 THEN node.style.fontWeight
                ELSE guessWeightFromName(node.name),
     italic |-> node.style.italic]

RecordFont(acc, font, path) ==
    [acc EXCEPT !.fonts = AddFont(@, font),
                !.log = Append(@, [node |-> path, kind |-> "font",
                                   value |-> font, at |-> <<"style", 0, 0>>])]

\* if (fontFamily) acc.fonts.add(..) of a text node
FontWrite(acc, node, path) ==
    IF node.type = "TEXT" /\ node.style # NoStyle /\ node.style.fontFamily # ""
    THEN RecordFont(acc, FontOf(node), path)
    ELSE acc

\* if (isIconCandidate) acc.iconNodes.push(..)
IconWrite(acc, node, currentNames, path) ==
    IF IsIconCandidate(node)
    THEN [acc EXCEPT !.iconNodes =
              Append(@, [idPath |-> node.id, namePath |-> currentNames, node |-> path])]
    ELSE acc

RECURSIVE traverseFrame(_, _, _, _, _)
RECURSIVE TraverseChildren(_, _, _, _, _, _)

\* path, the place of the node in the frame (child indices from the root), is
\* carried for the history only; an icon record keeps it beside idPath
RECURSIVE VisitNode(_, _, _, _, _)

traverseFrame(node, acc, ancestryNames, inheritedOpacity, path) ==
    IF node = NoNode \/ IsHidden(node) THEN acc
    ELSE VisitNode(node, acc,
                   IF node.name # <<>> THEN Append(ancestryNames, node.name) ELSE ancestryNames,
                   clamp01(Mul(inheritedOpacity, effectiveNodeOpacity(node))), path)

\* the body of traverseFrame for a visible node: the colours, the text, the
\* shadows, the icon candidate, then the children
VisitNode(node, acc, currentNames, cumulativeOpacity, path) ==
    TraverseChildren(
        node.children,
        IconWrite(
            FontWrite(
                ApplyContributions(
                    acc,
                    NodeContributions(node, ToLower(Join(currentNames, <<"/">>)),
                                      cumulativeOpacity),
                    buildSlugCandidates(currentNames), path),
                node, path),
            node, currentNames, path),
        currentNames, cumulativeOpacity, path, 1)

TraverseChildren(children, acc, names, opacity, path, i) ==
    IF i > Len(children) THEN acc
    ELSE TraverseChildren(children,
                          traverseFrame(children[i], acc, names, opacity, Append(path, i)),
                          names, opacity, path, i + 1)

(***************************************************************************)
(* Values of the variables API.  A JavaScript value is a record: a number, *)
(* a string, a boolean, null, undefined, an alias object or a colour       *)
(* object {r, g, b, a}.                                                    *)
(***************************************************************************)
JsUndefined == [undefined |-> TRUE]
JsNull == [null |-> TRUE]
JsNum(x) == [num |-> x]
JsStr(s) == [str |-> s]
JsBool(b) == [bool |-> b]
VariableAlias(id) == [type |-> "VARIABLE_ALIAS", id |-> id]

IsNum(v) == DOMAIN v = {"num"}
IsStr(v) == DOMAIN v = {"str"}

\* !value
Falsy(v) == v \in {JsUndefined, JsNull, JsNum(Zero), JsStr(<<>>), JsBool(FALSE)}

\* values[modeId] of a valuesByMode object, kept as the list of its entries
\* in key order
RECURSIVE ValueInMode(_, _)
ValueInMode(values, modeId) ==
    IF values = <<>> THEN JsUndefined
    ELSE IF Head(values).modeId = modeId THEN Head(values).value
    ELSE ValueInMode(Tail(values), modeId)

NoMode == ""

chooseVariableModeId(variable, collectionMap) ==
    LET values == variable.valuesByMode
    IN  IF values = <<>> THEN NoMode
        ELSE LET preferred == IF variable.variableCollectionId \in DOMAIN collectionMap
                              THEN collectionMap[variable.variableCollectionId].defaultModeId
                              ELSE NoMode
             IN  IF preferred # NoMode /\ ~Falsy(ValueInMode(values, preferred))
                 THEN preferred
                 ELSE Head(values).modeId

AliasDepthLimit == 50

\* value.type === "VARIABLE_ALIAS" && value.id
IsAliasValue(value) ==
    /\ "type" \in DOMAIN value
    /\ value.type = "VARIABLE_ALIAS"
    /\ "id" \in DOMAIN value
    /\ value.id # 0

SameDepth(depth) == depth

NextDepth(depth) == depth + 1

DanglingAliasIsBlue == [r |-> Zero, g |-> Zero, b |-> One, a |-> One]

MissingTargetResult == JsNull

\* one invocation of resolveVariableAlias: the value it returns, or the
\* arguments of the call it makes to itself
ResolveStep(variableMap, value, modeId, depth) ==
    IF Falsy(value) THEN [returns |-> JsNull]
    ELSE IF depth > AliasDepthLimit THEN [returns |-> JsNull]
    ELSE IF IsAliasValue(value)
    THEN IF value.id \notin DOMAIN variableMap THEN [returns |-> MissingTargetResult]
         ELSE [calls |-> ValueInMode(variableMap[value.id].valuesByMode, modeId),
               depth |-> NextDepth(depth)]
    ELSE [returns |-> value]

RECURSIVE resolveVariableAlias(_, _, _, _)
resolveVariableAlias(variableMap, value, modeId, depth) ==
    LET step == ResolveStep(variableMap, value, modeId, depth)
    IN  IF "returns" \in DOMAIN step THEN step.returns
        ELSE resolveVariableAlias(variableMap, step.calls, modeId, step.depth)

\* typeof entry.r === "number" && typeof entry.g === "number" && ...
IsColorObject(entry) ==
    /\ {"r", "g", "b"} \subseteq DOMAIN entry
    /\ entry.r # Undef /\ entry.g # Undef /\ entry.b # Undef

IsHexDigit(c) == IsDigit(c) \/ c \in {"a","b","c","d","e","f","A","B","C","D","E","F"}

HexValue(c) ==
    CHOOSE v \in 0..15 : HexDigitSeq[v + 1] = ToLowerChar(c)

RECURSIVE SkipSpaces(_)
SkipSpaces(s) == IF s # <<>> /\ IsSpace(Head(s)) THEN SkipSpaces(Tail(s)) ELSE s

RECURSIVE HexPrefixValue(_, _)
HexPrefixValue(s, accum) ==
    IF s = <<>> \/ ~IsHexDigit(Head(s)) THEN accum
    ELSE HexPrefixValue(Tail(s), 16 * accum + HexValue(Head(s)))

NaN == [nan |-> TRUE]

\* parseInt(s, 16): leading white space, a sign, an optional 0x, then the
\* longest run of hexadecimal digits; NaN when there is none
parseInt16(s) ==
    LET t      == SkipSpaces(s)
        neg    == t # <<>> /\ Head(t) = "-"
        u      == IF t # <<>> /\ Head(t) \in {"-", "+"} THEN Tail(t) ELSE t
        w      == IF Len(u) >= 2 /\ u[1] = "0" /\ u[2] \in {"x", "X"} THEN Tail(Tail(u)) ELSE u
    IN  IF w = <<>> \/ ~IsHexDigit(Head(w)) THEN NaN
        ELSE [int |-> IF neg THEN -HexPrefixValue(w, 0) ELSE HexPrefixValue(w, 0)]

\* hex.split("").map((c) => c + c).join("")
DoubleChars(s) == FlatMapSeq([i \in 1..Len(s) |-> <<s[i], s[i]>>])

\* the colour of the digits hex of "#rgb" or "#rrggbb", num their value
HexColor(hex, num) ==
    IF Len(hex) \in {3, 6} /\ num # NaN
    THEN [r |-> Norm(<<(num.int \div 65536) % 256, 255>>),
          g |-> Norm(<<(num.int \div 256) % 256, 255>>),
          b |-> Norm(<<num.int % 256, 255>>),
          a |-> One]
    ELSE NoColor

normalizeVariableColorValue(entry) ==
    IF Falsy(entry) THEN NoColor
    ELSE IF IsColorObject(entry)
    THEN [r |-> clamp01(entry.r), g |-> clamp01(entry.g), b |-> clamp01(entry.b),
          a |-> IF "a" \in DOMAIN entry /\ entry.a # Undef THEN clamp01(entry.a) ELSE One]
    ELSE IF IsStr(entry) /\ entry.str # <<>> /\ Head(entry.str) = "#"
    THEN HexColor(Tail(entry.str),
                  parseInt16(IF Len(entry.str) = 4 THEN DoubleChars(Tail(entry.str))
                             ELSE Tail(entry.str)))
    ELSE NoColor

RECURSIVE DigitPrefix(_)
DigitPrefix(s) ==
    IF s # <<>> /\ IsDigit(Head(s)) THEN <<Head(s)>> \o DigitPrefix(Tail(s)) ELSE <<>>

RECURSIVE DigitsToNat(_, _)
DigitsToNat(s, accum) ==
    IF s = <<>> THEN accum
    ELSE DigitsToNat(Tail(s), 10 * accum + (CHOOSE v \in 0..9 : DigitSeq[v + 1] = Head(s)))

RECURSIVE Pow10(_)
Pow10(n) == IF n = 0 THEN 1 ELSE 10 * Pow10(n - 1)

\* parseFloat(s) of a decimal literal without exponent: leading white space,
\* a sign, digits, an optional fraction; NaN when there is no digit
Negate(x) == <<-x[1], x[2]>>

\* the value of the digits before and after the point
DecimalValue(neg, intPart, fracPart) ==
    IF intPart = <<>> /\ fracPart = <<>> THEN NaN
    ELSE [num |-> IF neg
                  THEN Negate(Norm(<<DigitsToNat(intPart \o fracPart, 0), Pow10(Len(fracPart))>>))
                  ELSE Norm(<<DigitsToNat(intPart \o fracPart, 0), Pow10(Len(fracPart))>>)]

FractionDigits(rest) ==
    IF rest # <<>> /\ Head(rest) = "." THEN DigitPrefix(Tail(rest)) ELSE <<>>

UnsignedDecimal(neg, u, intPart) ==
    DecimalValue(neg, intPart, FractionDigits(SubSeq(u, Len(intPart) + 1, Len(u))))

SignedDecimal(t) ==
    UnsignedDecimal(t # <<>> /\ Head(t) = "-",
                    IF t # <<>> /\ Head(t) \in {"-", "+"} THEN Tail(t) ELSE t,
                    DigitPrefix(IF t # <<>> /\ Head(t) \in {"-", "+"} THEN Tail(t) ELSE t))

parseFloat(s) == SignedDecimal(SkipSpaces(s))

\* Number.isFinite(parsed) ? parsed : null
NumberOrUndef(parsed) == IF parsed = NaN THEN Undef ELSE parsed.num

\* the number, or Undef for null
coerceNumber(value) ==
    IF IsNum(value) THEN value.num
    ELSE IF IsStr(value)
    THEN NumberOrUndef(parseFloat(value.str))
    ELSE IF "value" \in DOMAIN value /\ value.value # Undef THEN value.value
    ELSE IF "v" \in DOMAIN value /\ value.v # Undef THEN value.v
    ELSE Undef

\* \w of the regular expressions
IsWordChar(c) == IsAlnum(c) \/ c = "_"

\* /\bw\b/.test(s) for a word w of word characters
WordBounded(s, w) ==
    \E i \in 1..(Len(s) - Len(w) + 1) :
        /\ SubSeq(s, i, i + Len(w) - 1) = w
        /\ (i = 1 \/ ~IsWordChar(s[i - 1]))
        /\ (i + Len(w) > Len(s) \/ ~IsWordChar(s[i + Len(w)]))

FONT_SIZE_HINT_RE(s) ==
    ContainsAny(s, {<<"f","o","n","t">>, <<"t","e","x","t">>, <<"h","e","a","d","l","i","n","e">>, <<"t","i","t","l","e">>, <<"d","i","s","p","l","a","y">>, <<"b","o","d","y">>,
                    <<"c","a","p","t","i","o","n">>, <<"p","a","r","a","g","r","a","p","h">>, <<"b","u","t","t","o","n">>, <<"s","i","z","e">>, <<"d","e","s","k","t","o","p","-","-","-">>,
                    <<"m","o","b","i","l","e","-","-","-">>})

LINE_HEIGHT_HINT_RE(s) ==
    \/ ContainsAny(s, {<<"l","i","n","e","h","e","i","g","h","t">>, <<"l","i","n","e","-","h","e","i","g","h","t">>, <<"l","e","a","d","i","n","g">>, <<"l","i","n","e">>})
    \/ WordBounded(s, <<"l","h">>)

DESKTOP_HINT_RE(s) ==
    ContainsAny(s, {<<"d","e","s","k","t","o","p">>, <<"d","e","s","k">>, <<"w","e","b">>, <<"l","g">>, <<"x","l">>, <<"x","x","l">>, <<"h","d">>,
                    <<"d","e","s","k","t","o","p","-","-","-">>})

slugMatches(slugs, regex(_)) == \E i \in 1..Len(slugs) : regex(slugs[i])

inferDesktopFromSlugs(slugs) == slugMatches(slugs, DESKTOP_HINT_RE)

formatFontSizeNumber(value, slugs) ==
    IF value = Undef \/ Leq(value, Zero) THEN NULL
    ELSE wrapRem(px(value), inferDesktopFromSlugs(slugs))

formatLineHeightNumber(value, slugs) ==
    IF value = Undef \/ Leq(value, Zero) THEN NULL
    ELSE IF Leq(value, FromInt(5)) THEN formatUnitless(value)
    ELSE wrapRem(px(value), inferDesktopFromSlugs(slugs))

\* the positions of a digit followed by "px"
DigitPxAt(s) ==
    {j \in 1..(Len(s) - 2) : IsDigit(s[j]) /\ s[j + 1] = "p" /\ s[j + 2] = "x"}

\* the positions where "rgb" or "#" starts, with the length of the match
ColorStartAt(s) ==
    {<<i, 1>> : i \in {k \in 1..Len(s) : s[k] = "#"}}
    \cup {<<i, 3>> : i \in {k \in 1..(Len(s) - 2) : SubSeq(s, k, k + 2) = <<"r","g","b">>}}

\* /(rgba?|#)[^;]*\d+px[^;]*\d+px/.test(s)
SHADOW_VALUE_RE(s) ==
    \E c \in ColorStartAt(s) : \E j \in DigitPxAt(s) : \E k \in DigitPxAt(s) :
        /\ j >= c[1] + c[2]
        /\ k >= j + 3
        /\ \A q \in c[1]..(k + 2) : s[q] # ";"

\* name.split("/").map((p) => p.trim()).filter(Boolean)
RECURSIVE SplitKeepEmpty(_, _, _)
SplitKeepEmpty(s, c, cur) ==
    IF s = <<>> THEN <<cur>>
    ELSE IF Head(s) = c THEN <<cur>> \o SplitKeepEmpty(Tail(s), c, <<>>)
    ELSE SplitKeepEmpty(Tail(s), c, Append(cur, Head(s)))

NameSegments(name) ==
    LET pieces == SplitKeepEmpty(name, "/", <<>>)
    IN  SelectSeq([i \in 1..Len(pieces) |-> Trim(pieces[i])], NonEmpty)

NoContribution == [kind |-> "none"]

\* a COLOR variable: normalizeVariableColorValue, then rgbaOrHex
ColorContribution(slugHints, colorValue) ==
    IF colorValue = NoColor THEN NoContribution
    ELSE [kind |-> "color", slugs |-> slugHints, value |-> rgbaOrHex(colorValue, colorValue.a)]

\* if (formatted) assignValueBySlug(..)
FormattedContribution(kind, slugHints, formatted) ==
    IF formatted = NULL THEN NoContribution
    ELSE [kind |-> kind, slugs |-> slugHints, value |-> formatted]

\* a FLOAT variable: the font-size hint is looked at before the line-height hint
FloatContribution(slugHints, numeric) ==
    IF numeric = Undef THEN NoContribution
    ELSE IF slugMatches(slugHints, FONT_SIZE_HINT_RE)
    THEN FormattedContribution("fontSize", slugHints, formatFontSizeNumber(numeric, slugHints))
    ELSE IF slugMatches(slugHints, LINE_HEIGHT_HINT_RE)
    THEN FormattedContribution("lineHeight", slugHints,
                               formatLineHeightNumber(numeric, slugHints))
    ELSE NoContribution

\* a STRING variable: str is the trimmed string, empty for another value
StringContribution(slugHints, str) ==
    IF str # <<>> /\ SHADOW_VALUE_RE(str)
    THEN [kind |-> "shadow", slugs |-> slugHints, value |-> str]
    ELSE NoContribution

ContributionOfValue(resolvedType, slugHints, rawValue) ==
    IF resolvedType = "COLOR"
    THEN ColorContribution(slugHints, normalizeVariableColorValue(rawValue))
    ELSE IF resolvedType = "FLOAT"
    THEN FloatContribution(slugHints, coerceNumber(rawValue))
    ELSE IF resolvedType = "STRING"
    THEN StringContribution(slugHints, IF IsStr(rawValue) THEN Trim(rawValue.str) ELSE <<>>)
    ELSE NoContribution

ContributionInMode(variable, slugHints, modeId, variableMap) ==
    IF slugHints = <<>> \/ modeId = NoMode THEN NoContribution
    ELSE ContributionOfValue(variable.resolvedType, slugHints,
             resolveVariableAlias(variableMap, ValueInMode(variable.valuesByMode, modeId),
                                  modeId, 0))

\* what one variable of the catalog writes: the token map, the slugs and the
\* value, or nothing
VariableContribution(variable, collectionMap, variableMap) ==
    ContributionInMode(variable, buildSlugCandidates(NameSegments(variable.name)),
                       chooseVariableModeId(variable, collectionMap), variableMap)

ApplyContribution(tokens, c) ==
    IF c = NoContribution THEN tokens
    ELSE [tokens EXCEPT ![MapOfKind(c.kind)] = assignValueBySlug(@, c.slugs, c.value)]

\* the place of the last entry of the list with this id
LastIndexOfId(list, id) ==
    CHOOSE i \in 1..Len(list) :
        /\ list[i].id = id
        /\ \A j \in (i + 1)..Len(list) : list[j].id # id

\* new Map() filled with set(id, x) in list order: the last entry of an id
MapById(list) ==
    [k \in {list[i].id : i \in 1..Len(list)} |-> list[LastIndexOfId(list, k)]]

\* the loop over the variables from the lo-th to the hi-th, in list order.
\* The range is walked by halves, and the tokens of the first half are
\* computed before the second half is entered (the comparison asks for them).
RECURSIVE VariableTokensLoop(_, _, _, _, _, _)
RECURSIVE VariableTokensRest(_, _, _, _, _, _, _)
VariableTokensLoop(variables, lo, hi, collectionMap, variableMap, tokens) ==
    IF lo > hi THEN tokens
    ELSE IF lo = hi
    THEN ApplyContribution(tokens,
                           VariableContribution(variables[lo], collectionMap, variableMap))
    ELSE VariableTokensRest(variables, ((lo + hi) \div 2) + 1, hi, collectionMap, variableMap,
             tokens,
             VariableTokensLoop(variables, lo, (lo + hi) \div 2, collectionMap, variableMap,
                                tokens))

VariableTokensRest(variables, lo, hi, collectionMap, variableMap, before, tokens) ==
    IF tokens = before
    THEN VariableTokensLoop(variables, lo, hi, collectionMap, variableMap, before)
    ELSE VariableTokensLoop(variables, lo, hi, collectionMap, variableMap, tokens)

\* collectVariableTokens after the fetch: meta is the aggregate of
\* fetchVariablesForFile
VariableTokensOf(meta) ==
    IF meta.variables = <<>> THEN emptyStyleTokens
    ELSE VariableTokensLoop(meta.variables, 1, Len(meta.variables),
                            MapById(meta.collections), MapById(meta.variables),
                            emptyStyleTokens)

(***************************************************************************)
(* The Figma API.  A response is the HTTP status with the err and message  *)
(* fields of its JSON body and the data of the body (a record with the     *)
(* field nodes, styles or meta), or a network failure (fetch rejects).     *)
(***************************************************************************)
NoBody == [absent |-> TRUE]

HttpOk(body) == [kind |-> "http", status |-> 200, err |-> <<>>, message |-> <<>>, body |-> body]

HttpError(status, err) ==
    [kind |-> "http", status |-> status, err |-> err, message |-> <<>>, body |-> NoBody]

NetworkFailure == [kind |-> "network", status |-> 0, err |-> <<>>, message |-> <<>>, body |-> NoBody]

FETCH_FAILED == <<"f","e","t","c","h"," ","f","a","i","l","e","d">>

\* figmaGET: the data, or the message of the Error thrown:
\* data.err || data.message || `HTTP ${res.status}`
figmaGET(response) ==
    IF response.kind = "network" THEN [threw |-> TRUE, message |-> FETCH_FAILED]
    ELSE IF response.status \in 200..299 THEN [threw |-> FALSE, data |-> response.body]
    ELSE [threw |-> TRUE,
          message |-> IF response.err # <<>> THEN response.err
                      ELSE IF response.message # <<>> THEN response.message
                      ELSE <<"H","T","T","P"," ">> \o NatToStr(response.status)]

FRAME_NOT_FOUND == <<"f","r","a","m","e"," ","d","o","c","u","m","e","n","t"," ","n","o","t"," ","f","o","u","n","d">>

\* data?.nodes || {} of the nodes endpoint: the documents by node id
NodesOf(data) == IF "nodes" \in DOMAIN data THEN data.nodes ELSE <<>>

\* fetchFrame, through fetchNodesById(fileId, [nodeId])
fetchFrame(response, nodeId) ==
    LET got == figmaGET(response)
    IN  IF got.threw THEN got
        ELSE IF nodeId \notin DOMAIN NodesOf(got.data)
        THEN [threw |-> TRUE, message |-> FRAME_NOT_FOUND]
        ELSE [threw |-> FALSE, data |-> NodesOf(got.data)[nodeId]]

\* fetchFileStyles: Array.isArray(data?.meta?.styles) ? data.meta.styles : []
fetchFileStyles(response) ==
    LET got == figmaGET(response)
    IN  IF got.threw THEN got
        ELSE [threw |-> FALSE,
              data |-> IF "styles" \in DOMAIN got.data THEN got.data.styles ELSE <<>>]

\* the messages fetchVariablePayload swallows
IsUnavailableMessage(message) ==
    Contains(ToLower(message), <<"h","t","t","p"," ","4","0","4">>) \/ Contains(ToLower(message), <<"h","t","t","p"," ","4","0","3">>)

NoMeta == [absent |-> TRUE]

\* fetchVariablePayload: data?.meta || null, null after a swallowed error
fetchVariablePayload(response) ==
    LET got == figmaGET(response)
    IN  IF ~got.threw
        THEN [threw |-> FALSE, data |-> IF "meta" \in DOMAIN got.data THEN got.data.meta ELSE NoMeta]
        ELSE IF IsUnavailableMessage(got.message) THEN [threw |-> FALSE, data |-> NoMeta]
        ELSE got

\* the entries of the list at the places of idx, in list order
EntriesAt(list, idx) ==
    [j \in 1..Cardinality(idx) |->
        list[CHOOSE i \in idx : Cardinality({k \in idx : k <= i}) = j]]

\* the entries of list whose id is not among those of seen, without repeats
UnseenById(list, seen) ==
    EntriesAt(list, {i \in 1..Len(list) :
                        /\ list[i].id \notin seen
                        /\ \A j \in 1..(i - 1) : list[j].id # list[i].id})

IdsOf(list) == {list[i].id : i \in 1..Len(list)}

AddMeta(aggregated, meta) ==
    IF meta = NoMeta THEN aggregated
    ELSE [variables |-> aggregated.variables
                          \o UnseenById(meta.variables, IdsOf(aggregated.variables)),
          collections |-> aggregated.collections
                          \o UnseenById(meta.variableCollections, IdsOf(aggregated.collections))]

\* fetchVariablesForFile: the scopes local and published, in this order; the
\* second request is made only when the first did not throw
fetchVariablesForFile(localResponse, publishedResponse) ==
    LET first == fetchVariablePayload(localResponse)
    IN  IF first.threw THEN first
        ELSE LET second == fetchVariablePayload(publishedResponse)
             IN  IF second.threw THEN second
                 ELSE [threw |-> FALSE,
                       data |-> AddMeta(AddMeta([variables |-> <<>>, collections |-> <<>>],
                                                first.data), second.data)]

collectVariableTokens(localResponse, publishedResponse) ==
    LET meta == fetchVariablesForFile(localResponse, publishedResponse)
    IN  IF meta.threw THEN meta
        ELSE [threw |-> FALSE, data |-> VariableTokensOf(meta.data), meta |-> meta.data]

(***************************************************************************)
(* Published styles                                                        *)
(***************************************************************************)
paintToColorString(paint) ==
    IF paint.visible = FALSE THEN NULL
    ELSE LET paintOpacity == clamp01(OrOne(paint.opacity))
         IN  IF paint.type = "SOLID" /\ paint.color # NoColor
             THEN rgbaOrHex(paint.color, composeAlpha(One, paintOpacity, OrOne(paint.color.a)))
             ELSE IF IsGradient(paint.type) /\ paint.gradientStops # <<>>
                     /\ paint.gradientStops[1].color # NoColor
             THEN rgbaOrHex(paint.gradientStops[1].color,
                            composeAlpha(One, paintOpacity, OrOne(paint.gradientStops[1].color.a)))
             ELSE NULL

\* if (val) return val; else go on
OrElse(val, next) == IF val # NULL THEN val ELSE next

\* the first paint of the list that gives a colour
RECURSIVE FirstPaintColor(_)
FirstPaintColor(paints) ==
    IF paints = <<>> THEN NULL
    ELSE OrElse(paintToColorString(Head(paints)), FirstPaintColor(Tail(paints)))

extractColorFromStyleNode(node) ==
    OrElse(FirstPaintColor(node.fills), FirstPaintColor(node.strokes))

StyleShadowPart(e) ==
    LET offX  == px(IF e.offset = NoOffset THEN Zero ELSE e.offset.x)
        offY  == px(IF e.offset = NoOffset THEN Zero ELSE e.offset.y)
        blur  == px(e.radius)
        alpha == composeAlpha(One, One, IF e.color = NoColor THEN One ELSE OrOne(e.color.a))
        col   == rgbaOrHex(e.color, alpha)
    IN  Join(<<offX, offY, blur, IF col = NULL THEN <<>> ELSE col>>, <<" ">>)

extractShadowFromStyleNode(node) ==
    LET shadows == SelectSeq(node.effects, IsShadow)
    IN  IF shadows = <<>> THEN NULL
        ELSE Join([i \in 1..Len(shadows) |-> StyleShadowPart(shadows[i])], <<",", " ">>)

extractTypographyFromStyleNode(node, slugHints, target) ==
    IF node.style = NoStyle THEN target
    ELSE LET hasFontSize == node.style.fontSize # Undef /\ Lt(Zero, node.style.fontSize)
             pathHint    == ToLower(node.name)
             isDesktop   == Contains(pathHint, W_desktop)
                                \/ (hasFontSize /\ Leq(FromInt(20), node.style.fontSize))
             sized       == IF hasFontSize
                            THEN [target EXCEPT !.fontSizeBySlug =
                                     assignValueBySlug(@, slugHints,
                                                       wrapRem(px(node.style.fontSize), isDesktop))]
                            ELSE target
         IN  [sized EXCEPT !.lineHeightBySlug =
                 assignValueBySlug(@, slugHints, formatLineHeight(node.style, isDesktop))]

IsInterestingStyle(s) == s.style_type \in {"FILL", "TEXT", "EFFECT"}

\* the switch on style_type for a style whose node was fetched
StyleTokensOfNode(styleType, node, slugHints, tokens) ==
    IF slugHints = <<>> THEN tokens
    ELSE IF styleType = "FILL"
    THEN [tokens EXCEPT !.colorsBySlug =
             assignValueBySlug(@, slugHints, extractColorFromStyleNode(node))]
    ELSE IF styleType = "TEXT"
    THEN extractTypographyFromStyleNode(node, slugHints, tokens)
    ELSE [tokens EXCEPT !.shadowsBySlug =
             assignValueBySlug(@, slugHints, extractShadowFromStyleNode(node))]

\* the body of the loop of collectStyleTokens for one style
StyleTokensOfStyle(style, nodes, tokens) ==
    IF style.node_id \notin DOMAIN nodes THEN tokens
    ELSE StyleTokensOfNode(style.style_type, nodes[style.node_id],
                           buildSlugCandidates(NameSegments(style.name)), tokens)

RECURSIVE StyleTokensLoop(_, _, _, _)
StyleTokensLoop(interesting, i, nodes, tokens) ==
    IF i > Len(interesting) THEN tokens
    ELSE StyleTokensLoop(interesting, i + 1, nodes,
                         StyleTokensOfStyle(interesting[i], nodes, tokens))

\* fetchNodesById for at most 45 ids: no request for no id, else one request
\* whose data maps the ids found to their documents
fetchNodesById(response, nodeIds) ==
    IF nodeIds = {} THEN [threw |-> FALSE, data |-> <<>>, requested |-> FALSE]
    ELSE LET got == figmaGET(response)
         IN  IF got.threw THEN [threw |-> TRUE, message |-> got.message, requested |-> TRUE]
             ELSE LET found == nodeIds \cap DOMAIN NodesOf(got.data)
                  IN  [threw |-> FALSE, data |-> [id \in found |-> NodesOf(got.data)[id]],
                       requested |-> TRUE]

\* collectStyleTokens: the tokens, or the message of the Error thrown;
\* requests counts the requests made
collectStyleTokens(stylesResponse, nodesResponse) ==
    LET styles == fetchFileStyles(stylesResponse)
    IN  IF styles.threw THEN [threw |-> TRUE, message |-> styles.message, requests |-> 1]
        ELSE LET interesting == SelectSeq(styles.data, IsInterestingStyle)
             IN  IF interesting = <<>>
                 THEN [threw |-> FALSE, data |-> emptyStyleTokens, requests |-> 1]
                 ELSE LET nodes == fetchNodesById(nodesResponse,
                                       {interesting[i].node_id : i \in 1..Len(interesting)}
                                           \ {""})
                      IN  IF nodes.threw
                          THEN [threw |-> TRUE, message |-> nodes.message, requests |-> 2]
                          ELSE [threw |-> FALSE,
                                data |-> StyleTokensLoop(interesting, 1, nodes.data,
                                                         emptyStyleTokens),
                                requests |-> IF nodes.requested THEN 2 ELSE 1]

(***************************************************************************)
(* Token merge and the stylesheet                                          *)
(***************************************************************************)
\* target.set(slugKey, val) for every entry of source
mergeSlugMaps(target, source) == source @@ target

RECURSIVE pickValueBySlug(_, _)
pickValueBySlug(map, slugCandidates) ==
    IF slugCandidates = <<>> THEN NULL
    ELSE IF Head(slugCandidates) \in DOMAIN map THEN map[Head(slugCandidates)]
    ELSE pickValueBySlug(map, Tail(slugCandidates))

MinOf(S) == CHOOSE x \in S : \A y \in S : x <= y

\* the last position of the longest run of characters of a class that starts
\* at p; p - 1 when there is none
RunEnd(s, p, InClass(_)) ==
    LET stops == {q \in p..Len(s) : ~InClass(s[q])}
    IN  IF stops = {} THEN Len(s) ELSE MinOf(stops) - 1

\* [A-Za-z0-9_\-]
IsNameChar(c) == IsAlnum(c) \/ c \in {"_", "-"}

NoMatch == [absent |-> TRUE]

\* the match of /(\-\-[A-Za-z0-9_\-]+)\s*:\s*([^;]+);/ that starts at p
DeclMatchAt(s, p) ==
    IF ~(p + 1 <= Len(s) /\ s[p] = "-" /\ s[p + 1] = "-") THEN NoMatch
    ELSE LET nameEnd == RunEnd(s, p + 2, IsNameChar)
             colon   == RunEnd(s, nameEnd + 1, IsSpace) + 1
         IN  IF nameEnd < p + 2 \/ colon > Len(s) THEN NoMatch
             ELSE IF s[colon] # ":" THEN NoMatch
             ELSE LET spaceEnd == RunEnd(s, colon + 1, IsSpace)
                      semis    == {q \in (colon + 1)..Len(s) : s[q] = ";"}
                  IN  IF semis = {} THEN NoMatch
                      ELSE IF MinOf(semis) = colon + 1 THEN NoMatch
                      ELSE LET semi     == MinOf(semis)
                               \* [^;]+ takes one character back from \s* when
                               \* only white space stands before the semicolon
                               valStart == IF spaceEnd + 1 < semi THEN spaceEnd + 1
                                           ELSE semi - 1
                           IN  [start |-> p, end |-> semi,
                                name |-> SubSeq(s, p, nameEnd),
                                value |-> SubSeq(s, valStart, semi - 1)]

\* the matches of the global regular expression from position p on
RECURSIVE DeclMatches(_, _)
DeclMatches(s, p) ==
    LET starts == {q \in p..(Len(s) - 1) : DeclMatchAt(s, q) # NoMatch}
    IN  IF starts = {} THEN <<>>
        ELSE LET m == DeclMatchAt(s, MinOf(starts))
             IN  <<m>> \o DeclMatches(s, m.end + 1)

\* vars.push({ varName: m[1], value: m[2].trim() })
ScssVarsOf(ms) == [i \in 1..Len(ms) |-> [varName |-> ms[i].name, value |-> Trim(ms[i].value)]]

parseScssVars(content) == ScssVarsOf(DeclMatches(content, 1))

IsLowerHexDigit(c) == IsDigit(c) \/ c \in {"a", "b", "c", "d", "e", "f"}

\* /^-?\d+(?:\.\d+)?$/
LooksUnitlessNumber(v) ==
    LET u        == IF v # <<>> /\ Head(v) = "-" THEN Tail(v) ELSE v
        intPart  == DigitPrefix(u)
        rest     == SubSeq(u, Len(intPart) + 1, Len(u))
    IN  /\ intPart # <<>>
        /\ \/ rest = <<>>
           \/ /\ Len(rest) >= 2
              /\ Head(rest) = "."
              /\ \A i \in 2..Len(rest) : IsDigit(rest[i])

\* /line[-_ ]?height|leading|lineheight|\blh\b/
MentionsLineHeight(n) ==
    \/ ContainsAny(n, {<<"l","i","n","e","h","e","i","g","h","t">>, <<"l","i","n","e","-","h","e","i","g","h","t">>, <<"l","i","n","e","_","h","e","i","g","h","t">>, <<"l","i","n","e"," ","h","e","i","g","h","t">>,
                       <<"l","e","a","d","i","n","g">>})
    \/ WordBounded(n, <<"l","h">>)

NoType == "null"

\* a test that no value passes
NeverHex(v) == FALSE

\* /^#([0-9a-f]{3}|[0-9a-f]{6})$/
LooksHex(v) ==
    /\ Len(v) \in {4, 7}
    /\ Head(v) = "#"
    /\ \A i \in 2..Len(v) : IsLowerHexDigit(v[i])

\* /^rgba?\(/
LooksRgba(v) == StartsWith(v, <<"r","g","b","(">>) \/ StartsWith(v, <<"r","g","b","a","(">>)

classifyVar(name, value) ==
    LET n == ToLower(name)
        v == ToLower(Trim(value))
        looksHex == LooksHex(v)
        looksRgba == LooksRgba(v)
        looksRemFn == ContainsAny(v, {<<"#","{","r","e","m","(">>, <<"#","{","r","e","m","d","(">>, <<"r","e","m","(">>})
        looksShadowValue == SHADOW_VALUE_RE(v)
        looksPxNumber == DigitPxAt(v) # {}
        looksUnitlessNumber == LooksUnitlessNumber(v)
        mentionsLineHeight == MentionsLineHeight(n)
        looksNormalLine == v = <<"n","o","r","m","a","l">>
        sizeName == ContainsAny(n, {<<"f","o","n","t">>, <<"t","e","x","t">>, <<"h","e","a","d","l","i","n","e">>, <<"c","a","p","t","i","o","n">>,
                                    <<"b","o","d","y">>, <<"b","u","t","t","o","n">>, <<"s","i","z","e">>})
    IN  IF looksHex \/ looksRgba THEN "color"
        ELSE IF looksShadowValue THEN "shadow"
        ELSE IF mentionsLineHeight \/ looksNormalLine THEN "lineHeight"
        ELSE IF looksUnitlessNumber /\ mentionsLineHeight THEN "lineHeight"
        ELSE IF looksRemFn \/ (sizeName /\ looksPxNumber) THEN "fontSize"
        ELSE IF looksUnitlessNumber /\ ContainsAny(n, {<<"l","e","a","d","i","n","g">>, <<"l","i","n","e">>})
        THEN "lineHeight"
        ELSE IF ContainsAny(n, {<<"s","h","a","d","o","w">>, <<"e","l","e","v","a","t","i","o","n">>, <<"d","r","o","p">>}) THEN "shadow"
        ELSE IF ContainsAny(n, {<<"c","o","l","o","r">>, <<"g","r","e","y","s","c","a","l","e">>, <<"p","r","i","m","a","r","y">>, <<"s","e","c","o","n","d","a","r","y">>,
                                <<"s","u","p","p","o","r","t">>, <<"s","p","e","c","i","a","l">>, <<"a","c","c","e","n","t">>, <<"f","i","l","l">>, <<"b","g">>,
                                <<"b","a","c","k","g","r","o","u","n","d">>})
        THEN "color"
        ELSE IF MentionsLineHeight(n) THEN "lineHeight"
        ELSE IF sizeName \/ ContainsAny(n, {<<"d","e","s","k","t","o","p","-","-","-">>, <<"m","o","b","i","l","e","-","-","-">>}) THEN "fontSize"
        ELSE NoType

\* a comparison that takes every new value for a change
AlwaysDiffers(oldVal, newVal) == TRUE

\* String(oldVal).trim() === String(newVal).trim() is false
ValueDiffers(oldVal, newVal) == Trim(oldVal) # Trim(newVal)

\* the replacement of the matches of content from the i-th on, and the text
\* that follows them; pos is the first position not yet copied
RECURSIVE ReplaceMatches(_, _, _, _, _)
ReplaceMatches(content, ms, i, pos, updatesMap) ==
    IF i > Len(ms) THEN [text |-> SubSeq(content, pos, Len(content)), changed |-> 0]
    ELSE LET m       == ms[i]
             rest    == ReplaceMatches(content, ms, i + 1, m.end + 1, updatesMap)
             before  == SubSeq(content, pos, m.start - 1)
             whole   == SubSeq(content, m.start, m.end)
             rewrite == m.name \in DOMAIN updatesMap
                            /\ ValueDiffers(m.value, updatesMap[m.name])
         IN  IF rewrite
             THEN [text |-> before \o m.name \o <<":", " ">> \o updatesMap[m.name] \o <<";">>
                                \o rest.text,
                   changed |-> rest.changed + 1]
             ELSE [text |-> before \o whole \o rest.text, changed |-> rest.changed]

replaceScss(content, updatesMap) ==
    IF DOMAIN updatesMap = {} THEN [text |-> content, changed |-> 0]
    ELSE ReplaceMatches(content, DeclMatches(content, 1), 1, 1, updatesMap)

\* the token map classifyVar's answer selects
TokenMapOfType(acc, type) ==
    CASE type = "color" -> acc.colorsBySlug
      [] type = "fontSize" -> acc.fontSizeBySlug
      [] type = "lineHeight" -> acc.lineHeightBySlug
      [] type = "shadow" -> acc.shadowsBySlug

\* the token of a stylesheet variable: none without a type or a slug
ValueForVar(acc, type, slugCandidates) ==
    IF type = NoType \/ slugCandidates = <<>> THEN NULL
    ELSE pickValueBySlug(TokenMapOfType(acc, type), slugCandidates)

\* if (val) updates.set(v.varName, val)
SetUpdate(updates, varName, val) ==
    IF val = NULL THEN updates
    ELSE (varName :> val) @@ updates

\* the loop of actionUpdateScss over the parsed variables
RECURSIVE MatchUpdates(_, _, _, _)
MatchUpdates(scssVars, i, acc, updates) ==
    IF i > Len(scssVars) THEN updates
    ELSE MatchUpdates(scssVars, i + 1, acc,
             SetUpdate(updates, scssVars[i].varName,
                       ValueForVar(acc, classifyVar(scssVars[i].varName, scssVars[i].value),
                                   buildVarSlugCandidates(scssVars[i].varName))))

\* the eight calls of mergeSlugMaps: the style tokens, then the variable tokens
MergeTokens(acc, styleTokens, variableTokens) ==
    [acc EXCEPT
        !.colorsBySlug = mergeSlugMaps(mergeSlugMaps(@, styleTokens.colorsBySlug),
                                       variableTokens.colorsBySlug),
        !.fontSizeBySlug = mergeSlugMaps(mergeSlugMaps(@, styleTokens.fontSizeBySlug),
                                         variableTokens.fontSizeBySlug),
        !.lineHeightBySlug = mergeSlugMaps(mergeSlugMaps(@, styleTokens.lineHeightBySlug),
                                           variableTokens.lineHeightBySlug),
        !.shadowsBySlug = mergeSlugMaps(mergeSlugMaps(@, styleTokens.shadowsBySlug),
                                        variableTokens.shadowsBySlug)]

(***************************************************************************)
(* Inputs of the slug generator                                            *)
(***************************************************************************)
MaxPathLen == 2
MaxGenLen == 3

GenAlphabet == {"a", "B", "1", "-", "_", " ", "*"}

RECURSIVE StringsUpTo(_)
StringsUpTo(n) ==
    IF n = 0 THEN {<<>>}
    ELSE LET shorter == StringsUpTo(n - 1)
         IN  shorter \cup {Append(s, c) : s \in shorter, c \in GenAlphabet}

GenStrings == StringsUpTo(MaxGenLen)

NamePool ==
    { <<"D","e","s","k","t","o","p">>,
      <<"H","e","a","d","l","i","n","e"," ","1">>,
      <<"F","r","a","m","e">>,
      <<"G","r","o","u","p">>,
      <<"P","r","i","m","a","r","y"," "," ","B","u","t","t","o","n">>,
      <<"H","1">>,
      <<"I","c","o","n">>,
      <<"b","t","n","_","x",".","2">>,
      <<"*">> }

RECURSIVE PathsUpTo(_)
PathsUpTo(n) ==
    IF n = 0 THEN {<<>>}
    ELSE LET shorter == PathsUpTo(n - 1)
         IN  shorter \cup {Append(p, s) : p \in shorter, s \in NamePool}

NamePaths == PathsUpTo(MaxPathLen) \cup {<<s>> : s \in GenStrings}

VarNames ==
    { <<"-","-","g","r","e","y","s","c","a","l","e","-","-","9","0","0">>,
      <<"-","-","m","o","b","i","l","e","-","-","-","b","o","d","y">>,
      <<"-","-","m","y","_","v","a","r">>,
      <<"-","-">> }
    \cup {<<"-", "-">> \o s : s \in GenStrings}

SlugInputs ==
    {[kind |-> "path", names |-> p] : p \in NamePaths}
    \cup {[kind |-> "var", name |-> v] : v \in VarNames}

SlugInit ==
    /\ slugInput \in SlugInputs
    /\ slugOut = <<>>
    /\ slugPc = "call"

SlugIdle ==
    /\ slugInput = [kind |-> "none"]
    /\ slugOut = <<>>
    /\ slugPc = "idle"

CallBuildSlugCandidates ==
    /\ slugPc = "call"
    /\ slugInput.kind = "path"
    /\ slugOut' = buildSlugCandidates(slugInput.names)
    /\ slugPc' = "done"
    /\ UNCHANGED <<slugInput, notSlugVars>>

CallBuildVarSlugCandidates ==
    /\ slugPc = "call"
    /\ slugInput.kind = "var"
    /\ slugOut' = buildVarSlugCandidates(slugInput.name)
    /\ slugPc' = "done"
    /\ UNCHANGED <<slugInput, notSlugVars>>

(***************************************************************************)
(* Inputs of the walker: a frame "Card" with a child and a grandchild      *)
(***************************************************************************)
Red == [r |-> One, g |-> Zero, b |-> Zero, a |-> One]
Black == [r |-> Zero, g |-> Zero, b |-> Zero, a |-> One]

Solid(color, opacity, visible) ==
    [type |-> "SOLID", visible |-> visible, opacity |-> opacity, color |-> color,
     gradientStops |-> <<>>]

Gradient(stops, opacity) ==
    [type |-> "GRADIENT_LINEAR", visible |-> TRUE, opacity |-> opacity, color |-> NoColor,
     gradientStops |-> stops]

PaintPool ==
    { Solid(Red, Undef, TRUE),
      Solid(Red, <<1, 2>>, TRUE),
      Solid([Red EXCEPT !.a = <<1, 4>>], <<1, 2>>, TRUE),
      Solid([Red EXCEPT !.a = Undef], <<3, 2>>, TRUE),
      Solid([Red EXCEPT !.a = <<3, 2>>], <<1, 2>>, TRUE),
      Solid(Red, <<2047, 2048>>, TRUE),
      Solid([r |-> <<5, 4>>, g |-> <<1, 2>>, b |-> <<-1, 4>>, a |-> One], Undef, TRUE),
      Solid(Red, Zero, TRUE),
      Solid(Red, Undef, FALSE),
      Solid(NoColor, Undef, TRUE),
      Gradient(<< [color |-> Red], [color |-> NoColor],
                  [color |-> [Black EXCEPT !.a = <<1, 2>>]] >>, <<1, 2>>),
      [type |-> "IMAGE", visible |-> TRUE, opacity |-> Undef, color |-> NoColor,
       gradientStops |-> <<>>] }

RootOpacities == {Zero, <<1, 4>>, <<1, 2>>, One, <<5, 4>>, Undef}
ChildOpacities == {<<-1, 4>>, <<1, 2>>, <<3, 4>>, One}

TitleStyle ==
    [fontSize |-> FromInt(24), fontFamily |-> "Inter", fontWeight |-> 0, italic |-> FALSE,
     lineHeightPx |-> FromInt(32), lineHeightPercentFontSize |-> Undef]

DropShadow ==
    [type |-> "DROP_SHADOW", visible |-> TRUE, offset |-> [x |-> Zero, y |-> FromInt(4)],
     radius |-> FromInt(8), color |-> [Black EXCEPT !.a = <<1, 4>>]]

MkNode(id, name, type, visible, opacity, fills, strokes, style, effects, children) ==
    [id |-> id, name |-> name, type |-> type, visible |-> visible, opacity |-> opacity,
     fills |-> fills, strokes |-> strokes, style |-> style, effects |-> effects,
     children |-> children]

LeafNode(visible) ==
    MkNode("1:3", <<"T","i","t","l","e"," ","B","o","l","d">>, "TEXT", visible, Undef,
           <<Solid(Black, Undef, TRUE)>>, <<>>, TitleStyle, <<DropShadow>>, <<>>)

ChildNode(visible, opacity, paint, leafVisible) ==
    MkNode("1:2", <<"B","u","t","t","o","n">>, "GROUP", visible, opacity,
           <<paint>>, <<paint>>, NoStyle, <<>>, <<LeafNode(leafVisible)>>)

RootNode(visible, opacity, child) ==
    MkNode("1:1", <<"C","a","r","d">>, "FRAME", visible, opacity,
           <<Solid(Black, Undef, TRUE)>>, <<>>, NoStyle, <<>>, <<child>>)

\* text styles: with and without a font size, a pixel line height, a percent
\* line height, a family, a weight
BodyStyle ==
    [fontSize |-> FromInt(14), fontFamily |-> "Inter", fontWeight |-> 400, italic |-> FALSE,
     lineHeightPx |-> Undef, lineHeightPercentFontSize |-> Undef]

TextStyles ==
    { BodyStyle,
      TitleStyle,
      [BodyStyle EXCEPT !.fontWeight = 0, !.italic = TRUE,
                        !.lineHeightPercentFontSize = FromInt(150)],
      [BodyStyle EXCEPT !.fontSize = FromInt(16), !.fontFamily = "",
                        !.lineHeightPx = FromInt(24),
                        !.lineHeightPercentFontSize = FromInt(150)],
      [BodyStyle EXCEPT !.fontSize = <<98, 5>>, !.fontWeight = 700,
                        !.lineHeightPx = Zero,
                        !.lineHeightPercentFontSize = <<3054, 25>>],
      [BodyStyle EXCEPT !.fontSize = Undef] }

TextNames ==
    { <<"M","o","b","i","l","e","/","B","o","d","y">>,
      <<"D","e","s","k","t","o","p","/","H","e","a","d","l","i","n","e"," ","1">>,
      <<"T","i","t","l","e"," ","B","o","l","d">> }

TextNode(name, style) ==
    MkNode("2:2", name, "TEXT", TRUE, Undef, <<>>, <<>>, style, <<>>, <<>>)

TextParent(name, children) ==
    MkNode("2:1", name, "FRAME", TRUE, Undef, <<>>, <<>>, NoStyle, <<>>, children)

\* a text node alone, under a frame, and two text nodes of one name under a frame
TextFrames ==
    {TextNode(n, st) : n \in TextNames, st \in TextStyles}
    \cup {TextParent(r, <<TextNode(n, st)>>) :
              r \in {W_frame, W_desktop}, n \in TextNames, st \in TextStyles}
    \cup {TextParent(W_frame, <<TextNode(<<"T","i","t","l","e"," ","B","o","l","d">>, st1), TextNode(<<"T","i","t","l","e"," ","B","o","l","d">>, st2)>>) :
              st1 \in TextStyles, st2 \in TextStyles}

PaintFrames ==
    { RootNode(vr, orr, ChildNode(vc, oc, p, vl)) :
        vr \in BOOLEAN, orr \in RootOpacities, vc \in BOOLEAN, oc \in ChildOpacities,
        p \in PaintPool, vl \in BOOLEAN }

WalkFrames == PaintFrames \cup TextFrames

WalkInit ==
    /\ frame \in WalkFrames
    /\ walkAcc = createTraversalAccumulator
    /\ walkPc = "call"

WalkIdle ==
    /\ frame = NoNode
    /\ walkAcc = createTraversalAccumulator
    /\ walkPc = "idle"

CallTraverseFrame ==
    /\ walkPc = "call"
    /\ walkAcc' = traverseFrame(frame, createTraversalAccumulator, <<>>, One, <<>>)
    /\ walkPc' = "done"
    /\ UNCHANGED <<frame, notWalkVars>>

(***************************************************************************)
(* Inputs of resolveVariableAlias: every catalog of MaxVars variables      *)
(* whose value in the selected mode is an alias (of a variable of the      *)
(* catalog or of a missing one), a colour or nothing, and the alias chains *)
(* of 0..MaxHops hops that end in a literal.  Variable ids are numbers.    *)
(***************************************************************************)
MaxVars == 2
MaxHops == 52

SelectedMode == "m1"

Blue == [r |-> Zero, g |-> Zero, b |-> One, a |-> One]

\* every variable has a value in mode m2; v is its value in mode m1
ModeValues(v) ==
    IF v = JsUndefined THEN <<[modeId |-> "m2", value |-> Red]>>
    ELSE <<[modeId |-> "m1", value |-> v], [modeId |-> "m2", value |-> Red]>>

MkVariable(id, name, resolvedType, values) ==
    [id |-> id, name |-> name, resolvedType |-> resolvedType,
     variableCollectionId |-> "c1", valuesByMode |-> values]

AliasOptions == {VariableAlias(j) : j \in 1..(MaxVars + 1)} \cup {Blue, JsUndefined}

SmallCatalogs ==
    { [i \in 1..MaxVars |-> MkVariable(i, <<"v">>, "COLOR", ModeValues(f[i]))] :
        f \in [1..MaxVars -> AliasOptions] }

ChainLiterals ==
    {Blue, JsNum(FromInt(24)), JsStr(<<"x">>), JsNum(Zero), JsStr(<<>>), JsBool(FALSE)}

\* variable 1 -> variable 2 -> ... -> variable k -> literal
ChainCatalog(k, literal) ==
    [i \in 1..k |->
        MkVariable(i, <<"v">>, "COLOR",
                   ModeValues(IF i < k THEN VariableAlias(i + 1) ELSE literal))]

AliasInputs ==
    {[map |-> cat, start |-> v] : cat \in SmallCatalogs, v \in AliasOptions}
    \cup {[map |-> ChainCatalog(k, l), start |-> IF k = 0 THEN l ELSE VariableAlias(1)] :
            k \in 0..MaxHops, l \in ChainLiterals}

AliasInit ==
    /\ \E inp \in AliasInputs : aliasMap = inp.map /\ aliasStart = inp.start
    /\ aliasValue = aliasStart
    /\ aliasDepth = 0
    /\ aliasResult = JsUndefined
    /\ aliasPc = "run"

AliasIdle ==
    /\ aliasMap = <<>>
    /\ aliasStart = JsUndefined
    /\ aliasValue = JsUndefined
    /\ aliasDepth = 0
    /\ aliasResult = JsUndefined
    /\ aliasPc = "idle"

\* an invocation of resolveVariableAlias that returns
ResolveVariableAliasReturns ==
    /\ aliasPc = "run"
    /\ LET step == ResolveStep(aliasMap, aliasValue, SelectedMode, aliasDepth)
       IN  /\ "returns" \in DOMAIN step
           /\ aliasResult' = step.returns
    /\ aliasPc' = "done"
    /\ UNCHANGED <<aliasMap, aliasStart, aliasValue, aliasDepth, notAliasVars>>

\* an invocation of resolveVariableAlias that calls itself on the target
ResolveVariableAliasRecurses ==
    /\ aliasPc = "run"
    /\ LET step == ResolveStep(aliasMap, aliasValue, SelectedMode, aliasDepth)
       IN  /\ "calls" \in DOMAIN step
           /\ aliasValue' = step.calls
           /\ aliasDepth' = step.depth
    /\ UNCHANGED <<aliasMap, aliasStart, aliasResult, aliasPc, notAliasVars>>

(***************************************************************************)
(* Inputs of the update action: the answers of the Figma API and the       *)
(* stylesheet file                                                         *)
(***************************************************************************)
FrameNodeId == "1:1"

Green == [r |-> Zero, g |-> One, b |-> Zero, a |-> One]

UpdFrames ==
    { RootNode(TRUE, One, ChildNode(TRUE, One, Solid(Red, Undef, TRUE), TRUE)),
      RootNode(TRUE, <<1, 2>>, ChildNode(FALSE, One, Solid(Red, Undef, TRUE), TRUE)) }

ErrorResponses ==
    { HttpError(500, <<>>), HttpError(404, <<>>), HttpError(403, <<>>),
      HttpError(403, <<"F","o","r","b","i","d","d","e","n">>), NetworkFailure }

FrameResponses ==
    {HttpOk([nodes |-> (FrameNodeId :> doc)]) : doc \in UpdFrames}
    \cup {HttpOk(NoBody), HttpError(404, <<"N","o","t"," ","f","o","u","n","d">>), NetworkFailure}

MkStyle(name, styleType, nodeId) == [name |-> name, style_type |-> styleType, node_id |-> nodeId]

PublishedStyles ==
    << MkStyle(<<"C","a","r","d">>, "FILL", "9:1"),
       MkStyle(<<"C","a","r","d"," ","/"," ","T","i","t","l","e"," ","B","o","l","d">>, "TEXT", "9:2"),
       MkStyle(<<"E","l","e","v","a","t","i","o","n","/","C","a","r","d">>, "EFFECT", "9:3"),
       MkStyle(<<"L","a","y","o","u","t">>, "GRID", "9:4") >>

StylesResponses ==
    { HttpOk([styles |-> PublishedStyles]),
      HttpOk([styles |-> <<MkStyle(<<"L","a","y","o","u","t">>, "GRID", "9:4")>>]),
      HttpOk([styles |-> <<>>]), HttpOk(NoBody) }
    \cup ErrorResponses

StyleFillNode ==
    MkNode("9:1", <<"C","a","r","d">>, "RECTANGLE", TRUE, Undef,
           <<Solid(Blue, <<1, 2>>, FALSE), Solid(Blue, Undef, TRUE)>>, <<>>, NoStyle, <<>>, <<>>)

StyleTextNode ==
    MkNode("9:2", <<"T","i","t","l","e">>, "TEXT", TRUE, Undef, <<>>, <<>>,
           [TitleStyle EXCEPT !.fontSize = FromInt(16), !.lineHeightPx = Undef,
                              !.lineHeightPercentFontSize = FromInt(150)],
           <<>>, <<>>)

StyleEffectNode ==
    MkNode("9:3", <<"S","h","a","d","o","w">>, "RECTANGLE", TRUE, Undef, <<>>, <<>>, NoStyle,
           <<DropShadow>>, <<>>)

NodesResponses ==
    { HttpOk([nodes |-> ("9:1" :> StyleFillNode) @@ ("9:2" :> StyleTextNode)
                            @@ ("9:3" :> StyleEffectNode)]),
      HttpOk([nodes |-> ("9:1" :> StyleFillNode)]),
      HttpError(500, <<>>) }

DefaultCollection == [id |-> "c1", defaultModeId |-> SelectedMode]

\* variables 100 .. 99 + MaxHops: each aliases the next, the last is Blue
LongChain ==
    [i \in 1..MaxHops |->
        MkVariable(99 + i, <<"C","h","a","i","n">>, "COLOR",
                   ModeValues(IF i < MaxHops THEN VariableAlias(100 + i) ELSE Blue))]

\* the variables that resolve
PlainVariables ==
    << MkVariable(2, <<"B","r","a","n","d","/","P","r","i","m","a","r","y">>, "COLOR", ModeValues(Green)),
       MkVariable(3, <<"M","u","t","e","d">>, "COLOR", ModeValues(JsUndefined)),
       MkVariable(4, <<"F","o","n","t","/","T","i","t","l","e">>, "FLOAT", ModeValues(JsNum(FromInt(24)))),
       MkVariable(5, <<"L","e","a","d","i","n","g","/","B","o","d","y">>, "FLOAT", ModeValues(JsNum(<<3, 2>>))),
       MkVariable(6, <<"E","l","e","v","a","t","i","o","n","/","C","a","r","d">>, "STRING",
                  ModeValues(JsStr(<<"r","g","b","a","(","0",","," ","0",","," ","0",","," ","0",".","5",")"," ","0","p","x"," ","2","p","x"," ","4","p","x">>))),
       MkVariable(7, <<"C","a","r","d","/","B","u","t","t","o","n">>, "COLOR", ModeValues(VariableAlias(2))) >>

\* the values of the variable "Card": a colour, an alias that resolves, an
\* alias of a missing variable, of a variable without a value in the mode, of
\* itself, and of the head of the long chain
CardValues ==
    { Blue, VariableAlias(2), VariableAlias(7), VariableAlias(9), VariableAlias(3),
      VariableAlias(1), VariableAlias(100) }

CardVariable(v) == MkVariable(1, <<"C","a","r","d">>, "COLOR", ModeValues(v))

\* three variables that do not resolve, each for its own reason
UnresolvedVariables ==
    << MkVariable(11, <<"G","h","o","s","t","/","M","i","s","s","i","n","g">>, "COLOR", ModeValues(VariableAlias(9))),
       MkVariable(12, <<"G","h","o","s","t","/","M","o","d","e","l","e","s","s">>, "COLOR", ModeValues(VariableAlias(3))),
       MkVariable(13, <<"G","h","o","s","t","/","D","e","e","p">>, "COLOR", ModeValues(VariableAlias(100))) >>

MkMeta(variables) == [variables |-> variables, variableCollections |-> <<DefaultCollection>>]

VariableMetas ==
    {MkMeta(<<CardVariable(v)>> \o PlainVariables) : v \in CardValues \ {VariableAlias(100)}}
    \cup {MkMeta(PlainVariables \o <<CardVariable(v)>>) : v \in CardValues \ {VariableAlias(100)}}
    \cup { MkMeta(<<CardVariable(VariableAlias(100))>> \o PlainVariables \o LongChain),
           MkMeta(UnresolvedVariables \o PlainVariables \o LongChain),
           MkMeta(<<>>) }

LocalResponses ==
    {HttpOk([meta |-> m]) : m \in VariableMetas} \cup {HttpOk(NoBody)} \cup ErrorResponses

PublishedResponses ==
    { HttpOk([meta |-> MkMeta(<< CardVariable(Green),
                                 MkVariable(8, <<"C","a","r","d","/","T","i","t","l","e">>,
                                            "FLOAT", ModeValues(JsNum(FromInt(12)))) >>)]),
      HttpError(404, <<>>), HttpError(500, <<>>) }

NoFile == [absent |-> TRUE]

ScssFiles ==
    { [text |-> <<":","r","o","o","t"," ","{","\n"," "," ","-","-","c","a","r","d",":"," ","#","0","0","0","0","0","0",";","\n"," "," ","-","-","c","a","r","d","-","t","i","t","l","e",":"," ","1","2","p","x",";","\n"," "," ","-","-","m","u","t","e","d",":"," ","#","f","f","0","0","0","0",";","\n","}">>],
      [text |-> <<"-","-","e","l","e","v","a","t","i","o","n","-","c","a","r","d",":"," ","n","o","n","e",";","\n","-","-","c","a","r","d","-","b","u","t","t","o","n",":"," ","r","g","b","a","(","2","5","5",","," ","0",","," ","0",","," ","1",")"," ",";","\n","-","-","x",":",";">>],
      [text |-> <<"$","g","a","p",":"," ","4","p","x",";","\n","-","-","u","n","r","e","l","a","t","e","d",":"," ","1",";">>],
      NoFile }

UpdateInit ==
    /\ updPc = "fetchFrame"
    /\ updFrame = NoNode
    /\ updAcc = createTraversalAccumulator
    /\ updStyleTokens = emptyStyleTokens
    /\ updVariableTokens = emptyStyleTokens
    /\ updMeta = NoMeta
    /\ updFetches = <<>>
    /\ scssFile \in ScssFiles
    /\ bakFile = NoFile
    /\ updContent = <<>>
    /\ updUpdates = <<>>
    /\ scssWrites = 0
    /\ updError = <<>>

UpdateIdle ==
    /\ updPc = "idle"
    /\ updFrame = NoNode
    /\ updAcc = createTraversalAccumulator
    /\ updStyleTokens = emptyStyleTokens
    /\ updVariableTokens = emptyStyleTokens
    /\ updMeta = NoMeta
    /\ updFetches = <<>>
    /\ scssFile = NoFile
    /\ bakFile = NoFile
    /\ updContent = <<>>
    /\ updUpdates = <<>>
    /\ scssWrites = 0
    /\ updError = <<>>

\* the record of one request in the history of the run
FetchOutcome(endpoint, got) ==
    [endpoint |-> endpoint, ok |-> ~got.threw,
     message |-> IF got.threw THEN got.message ELSE <<>>]

Fetched(endpoint, response) == FetchOutcome(endpoint, figmaGET(response))

\* actionUpdateScss up to the end of the walk: fetchFrame, then
\* createTraversalAccumulator and traverseFrame
FetchFrameAndTraverse ==
    /\ updPc = "fetchFrame"
    /\ \E response \in FrameResponses :
         \E got \in {fetchFrame(response, FrameNodeId)} :
             /\ updFetches' = Append(updFetches, Fetched("nodes", response))
             /\ IF got.threw
                THEN /\ updPc' = "failed"
                     /\ updError' = got.message
                     /\ UNCHANGED <<updFrame, updAcc>>
                ELSE /\ updPc' = "styles"
                     /\ updFrame' = got.data
                     /\ updAcc' = traverseFrame(got.data, createTraversalAccumulator, <<>>, One, <<>>)
                     /\ UNCHANGED updError
    /\ UNCHANGED <<updStyleTokens, updVariableTokens, updMeta, scssFile, bakFile, updContent,
                   updUpdates, scssWrites, notUpdateVars>>

\* await collectStyleTokens(fileId)
CollectStyleTokens ==
    /\ updPc = "styles"
    /\ \E stylesResponse \in StylesResponses, nodesResponse \in NodesResponses :
         \E got \in {collectStyleTokens(stylesResponse, nodesResponse)} :
             /\ updFetches' = updFetches \o <<Fetched("styles", stylesResponse)>>
                                  \o (IF got.requests = 2
                                      THEN <<Fetched("styleNodes", nodesResponse)>> ELSE <<>>)
             /\ IF got.threw
                THEN /\ updPc' = "failed"
                     /\ updError' = got.message
                     /\ UNCHANGED updStyleTokens
                ELSE /\ updPc' = "variables"
                     /\ updStyleTokens' = got.data
                     /\ UNCHANGED updError
    /\ UNCHANGED <<updFrame, updAcc, updVariableTokens, updMeta, scssFile, bakFile, updContent,
                   updUpdates, scssWrites, notUpdateVars>>

\* await collectVariableTokens(fileId), then the eight calls of mergeSlugMaps
CollectVariableTokensAndMerge ==
    /\ updPc = "variables"
    /\ \E localResponse \in LocalResponses, publishedResponse \in PublishedResponses :
         \E got \in {collectVariableTokens(localResponse, publishedResponse)} :
             /\ updFetches' = updFetches \o <<Fetched("variables/local", localResponse)>>
                                  \o (IF fetchVariablePayload(localResponse).threw THEN <<>>
                                      ELSE <<Fetched("variables/published", publishedResponse)>>)
             /\ IF got.threw
                THEN /\ updPc' = "failed"
                     /\ updError' = got.message
                     /\ UNCHANGED <<updVariableTokens, updMeta, updAcc>>
                ELSE /\ updPc' = "read"
                     /\ updVariableTokens' = got.data
                     /\ updMeta' = got.meta
                     /\ updAcc' = MergeTokens(updAcc, updStyleTokens, got.data)
                     /\ UNCHANGED updError
    /\ UNCHANGED <<updFrame, updStyleTokens, scssFile, bakFile, updContent,
                   updUpdates, scssWrites, notUpdateVars>>

SCSS_NOT_FOUND == <<"S","C","S","S"," ","n","o","t"," ","f","o","u","n","d">>
READ_FAILED == <<"E","A","C","C","E","S",":"," ","p","e","r","m","i","s","s","i","o","n"," ","d","e","n","i","e","d",","," ","o","p","e","n">>
WRITE_FAILED == <<"E","A","C","C","E","S",":"," ","p","e","r","m","i","s","s","i","o","n"," ","d","e","n","i","e","d",","," ","w","r","i","t","e">>

\* readScss, parseScssVars and the matching loop; readFileSync may throw
ReadScssAndMatch ==
    /\ updPc = "read"
    /\ \E readable \in BOOLEAN :
         IF scssFile = NoFile \/ ~readable
         THEN /\ updPc' = "failed"
              /\ updError' = (IF scssFile = NoFile THEN SCSS_NOT_FOUND ELSE READ_FAILED)
              /\ UNCHANGED <<updContent, updUpdates>>
         ELSE /\ updPc' = "backup"
              /\ updContent' = scssFile.text
              /\ updUpdates' = MatchUpdates(parseScssVars(scssFile.text), 1, updAcc, <<>>)
              /\ UNCHANGED updError
    /\ UNCHANGED <<updFrame, updAcc, updStyleTokens, updVariableTokens, updMeta, updFetches,
                   scssFile, bakFile, scssWrites, notUpdateVars>>

\* backupScss: the copy of the stylesheet to <path>.bak; writeFileSync may throw
BackupScss ==
    /\ updPc = "backup"
    /\ \E writable \in BOOLEAN :
         IF writable
         THEN /\ updPc' = "write"
              /\ bakFile' = scssFile
              /\ UNCHANGED updError
         ELSE /\ updPc' = "failed"
              /\ updError' = WRITE_FAILED
              /\ UNCHANGED bakFile
    /\ UNCHANGED <<updFrame, updAcc, updStyleTokens, updVariableTokens, updMeta, updFetches,
                   scssFile, updContent, updUpdates, scssWrites, notUpdateVars>>

WriteAlways(changed) == TRUE

\* if (changed > 0)
ShouldWrite(changed) == changed > 0

\* replaceScss and the conditional write of the stylesheet
ReplaceAndWriteScss ==
    /\ updPc = "write"
    /\ \E replaced \in {replaceScss(updContent, updUpdates)} :
           IF ShouldWrite(replaced.changed)
           THEN /\ scssFile' = [text |-> replaced.text]
                /\ scssWrites' = scssWrites + 1
           ELSE UNCHANGED <<scssFile, scssWrites>>
    /\ updPc' = "done"
    /\ UNCHANGED <<updFrame, updAcc, updStyleTokens, updVariableTokens, updMeta, updFetches,
                   bakFile, updContent, updUpdates, updError, notUpdateVars>>

(***************************************************************************)
(* Specifications                                                          *)
(***************************************************************************)
FnIdle ==
    /\ fnName = ""
    /\ fnArgs = <<>>
    /\ fnResult = <<>>
    /\ fnPc = "idle"

RetryIdle ==
    /\ retryAttempts = 0
    /\ retryDelayMs = 0
    /\ retryAttempt = 0
    /\ retryPc = "idle"
    /\ retryInFlight = 0
    /\ retryCalls = <<>>
    /\ retryWaits = <<>>
    /\ retryOutcome = [kind |-> "pending"]

FontIdle ==
    /\ fontFound = <<>>
    /\ fontKeys = <<>>
    /\ fontUsages = <<>>
    /\ fontIndex = 0
    /\ fontAttempts = <<>>
    /\ fontManualSet = {}
    /\ fontDownloaded = 0
    /\ fontPc = "idle"
    /\ fontResult = [kind |-> "pending"]

IconIdle ==
    /\ iconNodes = <<>>
    /\ iconUsed = {}
    /\ iconRows = <<>>
    /\ iconOk = 0
    /\ iconMap = {}
    /\ iconIndex = 0
    /\ iconRetries = <<>>
    /\ iconPc = "idle"
    /\ iconResult = [kind |-> "pending"]

AuxIdle == FnIdle /\ RetryIdle /\ FontIdle /\ IconIdle

InitSlug == SlugInit /\ WalkIdle /\ AliasIdle /\ UpdateIdle /\ AuxIdle

NextSlug == CallBuildSlugCandidates \/ CallBuildVarSlugCandidates

SpecSlug == InitSlug /\ [][NextSlug]_vars

InitWalk == WalkInit /\ SlugIdle /\ AliasIdle /\ UpdateIdle /\ AuxIdle

NextWalk == CallTraverseFrame

SpecWalk == InitWalk /\ [][NextWalk]_vars

InitAlias == AliasInit /\ SlugIdle /\ WalkIdle /\ UpdateIdle /\ AuxIdle

NextAlias == ResolveVariableAliasReturns \/ ResolveVariableAliasRecurses

\* a pending invocation runs: the interpreter executes the call
SpecAlias == InitAlias /\ [][NextAlias]_vars /\ WF_vars(NextAlias)

InitUpdate == UpdateInit /\ SlugIdle /\ WalkIdle /\ AliasIdle /\ AuxIdle

NextUpdate ==
    \/ FetchFrameAndTraverse
    \/ CollectStyleTokens
    \/ CollectVariableTokensAndMerge
    \/ ReadScssAndMatch
    \/ BackupScss
    \/ ReplaceAndWriteScss

SpecUpdate == InitUpdate /\ [][NextUpdate]_vars

(***************************************************************************)
(* The matcher of actionUpdateScss, from the merged token maps on          *)
(***************************************************************************)
\* merged token maps, as the three fetch steps leave them in acc
AllKindsTokens ==
    [createTraversalAccumulator EXCEPT
        !.colorsBySlug = (<<"g","r","e","y","s","c","a","l","e","-","9","0","0">> :> <<"#","1","a","1","a","1","a">>) @@ (<<"c","a","r","d">> :> <<"#","0","0","0","0","f","f">>) @@ (<<"m","u","t","e","d">> :> <<"#","f","f","0","0","0","0">>) @@ (<<"n","a","m","e">> :> <<"#","0","0","f","f","0","0">>) @@ (<<"s","h","a","d","o","w">> :> <<"#","0","0","f","f","0","0">>),
        !.fontSizeBySlug = (<<"c","a","r","d","-","t","i","t","l","e">> :> <<"#","{","r","e","m","(","1","2","p","x",")","}">>) @@ (<<"t","i","t","l","e">> :> <<"#","{","r","e","m","(","1","4","p","x",")","}">>) @@ (<<"c","a","r","d">> :> <<"#","{","r","e","m","D","(","2","4","p","x",")","}">>) @@ (<<"t","e","x","t">> :> <<"#","{","r","e","m","(","1","6","p","x",")","}">>),
        !.lineHeightBySlug = (<<"c","a","r","d">> :> <<"1",".","5">>) @@ (<<"b","o","d","y">> :> <<"#","{","r","e","m","(","2","0","p","x",")","}">>),
        !.shadowsBySlug = (<<"e","l","e","v","a","t","i","o","n","-","c","a","r","d">> :> <<"0","p","x"," ","4","p","x"," ","8","p","x"," ","r","g","b","a","(","0",","," ","0",","," ","0",","," ","0",".","2","5",")">>) @@ (<<"c","a","r","d">> :> <<"0","p","x"," ","2","p","x"," ","4","p","x"," ","#","0","0","0","0","0","0">>)]

ColorTokensOnly ==
    [createTraversalAccumulator EXCEPT
        !.colorsBySlug = (<<"c","a","r","d">> :> <<"#","0","0","0","0","f","f">>) @@ (<<"m","u","t","e","d">> :> <<"#","f","f","0","0","0","0">>)
                          @@ (<<"g","r","e","y","s","c","a","l","e","-","9","0","0">> :> <<"#","1","a","1","a","1","a">>)]

MergedTokenMaps == {AllKindsTokens, ColorTokensOnly, createTraversalAccumulator}

\* names and values of single declarations
ClassifyNames ==
    {<<"-","-","m","y","-","r","a","n","d","o","m","-","n","a","m","e">>,
     <<"-","-","c","a","r","d","-","s","h","a","d","o","w">>,
     <<"-","-","b","o","d","y","-","l","i","n","e","-","h","e","i","g","h","t">>,
     <<"-","-","t","e","x","t","-","c","a","r","d","-","t","i","t","l","e">>}

ClassifyValues ==
    {<<"#","f","f","0","0","a","a">>,
     <<"#","F","F","F">>,
     <<"r","g","b","(","1",","," ","2",","," ","3",")">>,
     <<"r","g","b","a","(","0",","," ","0",","," ","0",","," ","0",".","2","5",")"," ","0","p","x"," ","4","p","x"," ","8","p","x">>,
     <<"0","p","x"," ","4","p","x"," ","8","p","x"," ","r","g","b","a","(","0",","," ","0",","," ","0",","," ","0",".","2","5",")">>,
     <<"#","0","0","0","0","0","0"," ","0","p","x"," ","4","p","x"," ","8","p","x">>,
     <<"1","2","p","x">>,
     <<"n","o","n","e">>}

MatchFiles ==
    { [text |-> <<":","r","o","o","t"," ","{","\n"," "," ","-","-","g","r","e","y","s","c","a","l","e","-","-","9","0","0",":"," ","#","0","0","0","0","0","0",";","\n"," "," ","-","-","t","e","x","t","-","c","a","r","d","-","t","i","t","l","e",":"," ","1","0","p","x",";","\n"," "," ","-","-","m","y","-","r","a","n","d","o","m","-","n","a","m","e",":"," ","#","f","f","0","0","a","a",";","\n","}","\n">>],
      [text |-> <<"-","-","m","u","t","e","d",":"," ","#","f","f","0","0","0","0",";","\n","-","-","m","u","t","e","d"," ",":"," "," ","#","f","f","0","0","0","0"," "," ",";","\n","-","-","u","n","r","e","l","a","t","e","d",":"," ","1",";">>],
      [text |-> <<"-","-","c","a","r","d","-","s","h","a","d","o","w",":"," ","#","0","0","0","0","0","0",";","\n","-","-","c","a","r","d","-","s","h","a","d","o","w",":"," ","n","o","n","e",";">>],
      [text |-> <<".","a"," ","{"," ","-","-","c","a","r","d",":","#","0","0","0","0","0","0"," ","}","\n",".","b"," ","{"," ","-","-","m","u","t","e","d",":"," ","#","F","F","0","0","0","0",";"," ","}","\n">>],
      NoFile }
    \cup {[text |-> n \o <<":", " ">> \o v \o <<";">>] : n \in ClassifyNames, v \in ClassifyValues}

\* the run at the point where the token maps are merged
MatchInit ==
    /\ updPc = "read"
    /\ updFrame = NoNode
    /\ updAcc \in MergedTokenMaps
    /\ updStyleTokens = emptyStyleTokens
    /\ updVariableTokens = emptyStyleTokens
    /\ updMeta = NoMeta
    /\ updFetches = <<>>
    /\ scssFile \in MatchFiles
    /\ bakFile = NoFile
    /\ updContent = <<>>
    /\ updUpdates = <<>>
    /\ scssWrites = 0
    /\ updError = <<>>

InitMatch == MatchInit /\ SlugIdle /\ WalkIdle /\ AliasIdle /\ AuxIdle

NextMatch ==
    \/ ReadScssAndMatch
    \/ BackupScss
    \/ ReplaceAndWriteScss

SpecMatch == InitMatch /\ [][NextMatch]_vars

(***************************************************************************)
(* Direct calls of the pure helpers                                        *)
(***************************************************************************)
ModeLiterals ==
    { Blue, JsNum(Zero), JsStr(<<>>), JsBool(FALSE), JsNull, JsNum(FromInt(24)),
      JsStr(<<"x">>), JsBool(TRUE), VariableAlias(2) }

\* valuesByMode objects, key order as inserted
ModeObjects ==
    {<<>>, <<[modeId |-> "m2", value |-> Red]>>}
    \cup {<<[modeId |-> "m1", value |-> v]>> : v \in ModeLiterals}
    \cup {<<[modeId |-> "m1", value |-> v], [modeId |-> "m2", value |-> Red]>> : v \in ModeLiterals}
    \cup {<<[modeId |-> "m2", value |-> Red], [modeId |-> "m1", value |-> v]>> : v \in ModeLiterals}

\* collection maps: default mode m1, m2, a mode no variable has, none, and
\* a map without the collection
ModeCollectionMaps ==
    {("c1" :> [id |-> "c1", defaultModeId |-> m]) : m \in {"m1", "m2", "m3", NoMode}}
    \cup {EmptyMap}

ModeCalls ==
    { [name |-> "chooseVariableModeId",
       args |-> <<MkVariable(1, <<"v">>, "FLOAT", values), collectionMap>>] :
        values \in ModeObjects, collectionMap \in ModeCollectionMaps }

\* node names with and without a weight keyword
WeightNames ==
    { <<"T","i","t","l","e"," ","T","h","i","n">>,
      <<"T","i","t","l","e"," ","E","x","t","r","a","L","i","g","h","t">>,
      <<"U","l","t","r","a","L","i","g","h","t">>,
      <<"B","o","d","y"," ","L","i","g","h","t">>,
      <<"R","e","g","u","l","a","r">>,
      <<"B","o","o","k">>,
      <<"N","o","r","m","a","l">>,
      <<"B","o","d","y"," ","M","e","d","i","u","m">>,
      <<"S","e","m","i","B","o","l","d">>,
      <<"T","i","t","l","e"," ","D","e","m","i","B","o","l","d">>,
      <<"T","i","t","l","e"," ","B","o","l","d">>,
      <<"T","i","t","l","e"," ","E","x","t","r","a","B","o","l","d">>,
      <<"U","l","t","r","a","B","o","l","d">>,
      <<"B","l","a","c","k">>,
      <<"H","e","a","v","y"," ","T","i","t","l","e">>,
      <<"T","i","t","l","e">>,
      <<"H","i","g","h","l","i","g","h","t">> }

\* fontWeight of the style; 0 stands for an absent one
ExplicitWeights == {0, 300, 400, 700}

WeightCalls ==
    { [name |-> "fontOf",
       args |-> <<TextNode(n, [BodyStyle EXCEPT !.fontWeight = w, !.italic = it])>>] :
        n \in WeightNames, w \in ExplicitWeights, it \in BOOLEAN }

\* the font usage traverseFrame records for a text node
CallFontOf ==
    /\ fnPc = "call"
    /\ fnName = "fontOf"
    /\ fnResult' = FontOf(fnArgs[1])
    /\ fnPc' = "done"
    /\ UNCHANGED <<fnName, fnArgs, notFnVars>>

\* effects: shadows with and without a color or an offset, a hidden shadow
\* and an effect that is no shadow
ShadowEffects ==
    { DropShadow,
      [DropShadow EXCEPT !.type = "INNER_SHADOW", !.color = Black],
      [DropShadow EXCEPT !.color = NoColor],
      [DropShadow EXCEPT !.offset = NoOffset],
      [DropShadow EXCEPT !.visible = FALSE],
      [DropShadow EXCEPT !.type = "LAYER_BLUR"] }

EffectLists ==
    {<<>>} \cup {<<e>> : e \in ShadowEffects}
           \cup {<<e1, e2>> : e1 \in ShadowEffects, e2 \in ShadowEffects}

ShadowCalls ==
    { [name |-> "shadowOfNode", args |-> <<effects, opacity>>] :
        effects \in EffectLists, opacity \in {One, <<1, 2>>} }
    \cup
    { [name |-> "extractShadowFromStyleNode",
       args |-> <<MkNode("9:3", <<"S","h","a","d","o","w">>, "RECTANGLE", TRUE, Undef,
                         <<>>, <<>>, NoStyle, effects, <<>>)>>] :
        effects \in EffectLists }

\* the value traverseFrame assigns for the effects of a node
CallShadowValue ==
    /\ fnPc = "call"
    /\ fnName = "shadowOfNode"
    /\ fnResult' = ShadowValue(fnArgs[1], fnArgs[2])
    /\ fnPc' = "done"
    /\ UNCHANGED <<fnName, fnArgs, notFnVars>>

CallExtractShadowFromStyleNode ==
    /\ fnPc = "call"
    /\ fnName = "extractShadowFromStyleNode"
    /\ fnResult' = extractShadowFromStyleNode(fnArgs[1])
    /\ fnPc' = "done"
    /\ UNCHANGED <<fnName, fnArgs, notFnVars>>

\* representative nodes of published styles: fills and strokes, text styles
\* and effects, each with and without an opacity of the node itself
StyleFillLists ==
    { <<>>,
      <<Solid(Red, Undef, TRUE)>>,
      <<Solid(Red, Undef, TRUE), Solid(Blue, Undef, TRUE)>>,
      <<Solid(Red, Undef, FALSE), Solid(Blue, Undef, TRUE)>>,
      <<Solid(NoColor, Undef, TRUE), Solid(Red, <<1, 2>>, TRUE)>>,
      <<Gradient(<<[color |-> Red], [color |-> [Black EXCEPT !.a = <<1, 2>>]]>>, Undef)>> }

StyleNodeOpacities == {Undef, <<1, 2>>}

StyleNodes ==
    { MkNode("9:1", <<"C","a","r","d">>, "RECTANGLE", TRUE, op, fills, strokes, NoStyle,
             <<>>, <<>>) :
        op \in StyleNodeOpacities, fills \in StyleFillLists,
        strokes \in {<<>>, <<Solid(Green, Undef, TRUE)>>} }
    \cup
    { MkNode("9:2", n, "TEXT", TRUE, op, <<>>, <<>>, st, <<>>, <<>>) :
        op \in StyleNodeOpacities, st \in TextStyles,
        n \in {<<"T","i","t","l","e">>, <<"D","e","s","k","t","o","p"," ","T","i","t","l","e">>} }
    \cup
    { MkNode("9:3", <<"S","h","a","d","o","w">>, "RECTANGLE", TRUE, op, <<>>, <<>>, NoStyle,
             effects, <<>>) :
        op \in StyleNodeOpacities, effects \in EffectLists }

StyleTypeOfNode(node) ==
    IF node.id = "9:1" THEN "FILL" ELSE IF node.id = "9:2" THEN "TEXT" ELSE "EFFECT"

\* a published style named as its representative node
StyleCalls ==
    { [name |-> "styleTokensOfStyle",
       args |-> <<MkStyle(node.name, StyleTypeOfNode(node), node.id), node>>] :
        node \in StyleNodes }

\* the body of the loop of collectStyleTokens for one style and its node
CallStyleTokensOfStyle ==
    /\ fnPc = "call"
    /\ fnName = "styleTokensOfStyle"
    /\ fnResult' = StyleTokensOfStyle(fnArgs[1], (fnArgs[1].node_id :> fnArgs[2]),
                                      emptyStyleTokens)
    /\ fnPc' = "done"
    /\ UNCHANGED <<fnName, fnArgs, notFnVars>>

\* names of FLOAT variables and their values in the selected mode
FloatNames ==
    { <<"F","o","n","t","/","T","i","t","l","e">>,
      <<"D","e","s","k","t","o","p","/","T","i","t","l","e">>,
      <<"T","e","x","t","/","B","o","d","y">>,
      <<"T","e","x","t","/","x","l">>,
      <<"W","e","b","/","C","a","p","t","i","o","n">>,
      <<"L","e","a","d","i","n","g","/","L","g">>,
      <<"C","a","r","d">>,
      <<"T","e","x","t","/","B","o","d","y","/","L","i","n","e"," ","H","e","i","g","h","t">> }

FloatValues ==
    {FromInt(12), FromInt(16), <<98, 5>>, FromInt(20), FromInt(24), <<3, 2>>, Zero, Undef}

FloatCalls ==
    { [name |-> "floatContribution", args |-> <<n, v>>] : n \in FloatNames, v \in FloatValues }

\* the FLOAT branch of collectVariableTokens for one variable
CallFloatContribution ==
    /\ fnPc = "call"
    /\ fnName = "floatContribution"
    /\ fnResult' = FloatContribution(buildSlugCandidates(NameSegments(fnArgs[1])), fnArgs[2])
    /\ fnPc' = "done"
    /\ UNCHANGED <<fnName, fnArgs, notFnVars>>

FnCalls == ModeCalls \cup WeightCalls \cup ShadowCalls \cup StyleCalls \cup FloatCalls

FnInit ==
    /\ \E call \in FnCalls : fnName = call.name /\ fnArgs = call.args
    /\ fnResult = <<>>
    /\ fnPc = "call"

CallChooseVariableModeId ==
    /\ fnPc = "call"
    /\ fnName = "chooseVariableModeId"
    /\ fnResult' = chooseVariableModeId(fnArgs[1], fnArgs[2])
    /\ fnPc' = "done"
    /\ UNCHANGED <<fnName, fnArgs, notFnVars>>

InitFn == FnInit /\ SlugIdle /\ WalkIdle /\ AliasIdle /\ UpdateIdle /\ RetryIdle /\ FontIdle /\ IconIdle

NextFn == CallChooseVariableModeId \/ CallFontOf \/ CallShadowValue \/ CallExtractShadowFromStyleNode \/ CallStyleTokensOfStyle \/ CallFloatContribution

SpecFn == InitFn /\ [][NextFn]_vars

(***************************************************************************)
(* fetchWithRetry                                                          *)
(***************************************************************************)
MaxAttempts == 3

\* what one fetch call can end with: an ok response, a response with a
\* non-ok status, or an exception
FetchResponses ==
    {HttpOk(NoBody), HttpError(500, <<>>), HttpError(404, <<>>), NetworkFailure}

IsOk(res) == res.kind = "http" /\ res.status \in 200..299

\* the error caught after a call: the exception of fetch or Error(`HTTP ${res.status}`)
ErrorOfCall(res) ==
    IF res.kind = "network" THEN FETCH_FAILED
    ELSE <<"H","T","T","P"," ">> \o NatToStr(res.status)

\* a test that sleeps after every failed call
WaitsAlways(attempt, attempts) == TRUE

\* if (attempt < attempts)
WaitsBeforeRetry(attempt, attempts) == attempt < attempts

RetryInit ==
    /\ retryAttempts \in 1..MaxAttempts
    /\ retryDelayMs \in {0, 300}
    /\ retryAttempt = 1
    /\ retryPc = "loop"
    /\ retryInFlight = 0
    /\ retryCalls = <<>>
    /\ retryWaits = <<>>
    /\ retryOutcome = [kind |-> "pending"]

\* for (...; attempt <= attempts; ...) { res = await fetch(url, options)
RetryFetchStarts ==
    /\ retryPc = "loop"
    /\ retryAttempt <= retryAttempts
    /\ retryInFlight' = retryInFlight + 1
    /\ retryPc' = "fetch"
    /\ UNCHANGED <<retryAttempts, retryDelayMs, retryAttempt, retryCalls, retryWaits,
                   retryOutcome, notRetryVars>>

\* the call settles with an ok response: return res
RetryFetchSucceeds ==
    /\ retryPc = "fetch"
    /\ \E res \in {r \in FetchResponses : IsOk(r)} :
           /\ retryCalls' = Append(retryCalls, res)
           /\ retryOutcome' = [kind |-> "returned", res |-> res]
    /\ retryInFlight' = retryInFlight - 1
    /\ retryPc' = "done"
    /\ UNCHANGED <<retryAttempts, retryDelayMs, retryAttempt, retryWaits, notRetryVars>>

\* the call throws or answers with a non-ok status: the catch block, up to
\* the await of sleep or to the end of the loop body
RetryFetchFails ==
    /\ retryPc = "fetch"
    /\ \E res \in {r \in FetchResponses : ~IsOk(r)} :
           /\ retryCalls' = Append(retryCalls, res)
           /\ retryOutcome' = [kind |-> "pending", lastError |-> ErrorOfCall(res)]
    /\ retryInFlight' = retryInFlight - 1
    /\ IF WaitsBeforeRetry(retryAttempt, retryAttempts)
       THEN /\ retryWaits' = Append(retryWaits, [after |-> retryAttempt,
                                                 ms |-> retryDelayMs * retryAttempt])
            /\ retryPc' = "sleep"
            /\ UNCHANGED retryAttempt
       ELSE /\ retryAttempt' = retryAttempt + 1
            /\ retryPc' = "loop"
            /\ UNCHANGED retryWaits
    /\ UNCHANGED <<retryAttempts, retryDelayMs, notRetryVars>>

\* the timer of sleep fires: continue
RetrySleepEnds ==
    /\ retryPc = "sleep"
    /\ retryAttempt' = retryAttempt + 1
    /\ retryPc' = "loop"
    /\ UNCHANGED <<retryAttempts, retryDelayMs, retryInFlight, retryCalls, retryWaits,
                   retryOutcome, notRetryVars>>

\* the loop is left: throw lastError
RetryThrows ==
    /\ retryPc = "loop"
    /\ retryAttempt > retryAttempts
    /\ retryOutcome' = [kind |-> "threw", error |-> retryOutcome.lastError]
    /\ retryPc' = "done"
    /\ UNCHANGED <<retryAttempts, retryDelayMs, retryAttempt, retryInFlight, retryCalls,
                   retryWaits, notRetryVars>>

InitRetry == RetryInit /\ SlugIdle /\ WalkIdle /\ AliasIdle /\ UpdateIdle /\ FnIdle /\ FontIdle /\ IconIdle

NextRetry ==
    \/ RetryFetchStarts
    \/ RetryFetchSucceeds
    \/ RetryFetchFails
    \/ RetrySleepEnds
    \/ RetryThrows

SpecRetry == InitRetry /\ [][NextRetry]_vars

(***************************************************************************)
(* actionFonts, from the traversal on                                      *)
(***************************************************************************)
MaxFonts == 2

W_Inter == <<"I","n","t","e","r">>

\* font usages: two of one family, a second family, a family written with a
\* leading blank, and a family without a letter or digit
FontPool ==
    { [family |-> W_Inter, weight |-> 400, italic |-> FALSE],
      [family |-> W_Inter, weight |-> 700, italic |-> TRUE],
      [family |-> <<"R","u","b","i","k">>, weight |-> 400, italic |-> FALSE],
      [family |-> <<" ">> \o W_Inter, weight |-> 400, italic |-> FALSE],
      [family |-> <<"*">>, weight |-> 400, italic |-> FALSE] }

\* the lists of at most MaxFonts different usages
RECURSIVE FontListsOfLen(_)
FontListsOfLen(n) ==
    IF n = 0 THEN {<<>>}
    ELSE {Append(l, f) : l \in FontListsOfLen(n - 1), f \in FontPool}

FontLists ==
    {l \in UNION {FontListsOfLen(n) : n \in 0..MaxFonts} :
        \A i, j \in 1..Len(l) : i # j => l[i] # l[j]}

\* `${fontFamily}::${weight}::${it}`
FontKey(font) ==
    font.family \o <<":", ":">> \o NatToStr(font.weight) \o <<":", ":">>
        \o (IF font.italic THEN <<"i">> ELSE <<"n">>)

\* key.split("::"): the parts, empty ones included
RECURSIVE SplitDoubleColon(_, _)
SplitDoubleColon(s, cur) ==
    IF s = <<>> THEN <<cur>>
    ELSE IF Len(s) >= 2 /\ s[1] = ":" /\ s[2] = ":"
         THEN <<cur>> \o SplitDoubleColon(SubSeq(s, 3, Len(s)), <<>>)
         ELSE SplitDoubleColon(Tail(s), Append(cur, s[1]))

PartOr(parts, i, default) == IF i <= Len(parts) THEN parts[i] ELSE default

\* Number(weightStr) || 400
WeightOfKey(weightStr) ==
    IF Trim(weightStr) # <<>> /\ \A i \in 1..Len(Trim(weightStr)) : IsDigit(Trim(weightStr)[i])
    THEN (IF DigitsToNat(Trim(weightStr), 0) = 0 THEN 400 ELSE DigitsToNat(Trim(weightStr), 0))
    ELSE 400

ParsedKey(key) ==
    [fam    |-> Trim(PartOr(SplitDoubleColon(key, <<>>), 1, <<>>)),
     weight |-> WeightOfKey(PartOr(SplitDoubleColon(key, <<>>), 2, <<>>)),
     italic |-> PartOr(SplitDoubleColon(key, <<>>), 3, <<"n">>) = <<"i">>]

NoFlags == [normal |-> FALSE, italic |-> FALSE]

\* usage.variants.get(weight)[italic ? "italic" : "normal"] = true
WithVariant(variants, weight, italic) ==
    LET flags == IF weight \in DOMAIN variants THEN variants[weight] ELSE NoFlags
    IN  (weight :> (IF italic THEN [flags EXCEPT !.italic = TRUE]
                    ELSE [flags EXCEPT !.normal = TRUE])) @@ variants

IndexOfUsage(usages, fam) ==
    IF \E i \in 1..Len(usages) : usages[i].name = fam
    THEN CHOOSE i \in 1..Len(usages) : usages[i].name = fam
    ELSE 0

\* the loop over fontKeys that fills usageMap
RECURSIVE CollectUsages(_, _, _)
CollectUsages(keys, i, usages) ==
    IF i > Len(keys) THEN usages
    ELSE LET k == ParsedKey(keys[i])
             at == IndexOfUsage(usages, k.fam)
         IN  IF k.fam = <<>> THEN CollectUsages(keys, i + 1, usages)
             ELSE IF at = 0
             THEN CollectUsages(keys, i + 1,
                      Append(usages, [name |-> k.fam,
                                      variants |-> WithVariant(EmptyMap, k.weight, k.italic)]))
             ELSE CollectUsages(keys, i + 1,
                      [usages EXCEPT ![at].variants = WithVariant(@, k.weight, k.italic)])

\* .toLowerCase().replace(/[^a-z0-9]+/g, "-")
RECURSIVE ReplaceNonAlnumRuns(_)
ReplaceNonAlnumRuns(s) ==
    IF s = <<>> THEN <<>>
    ELSE IF ~IsAlnum(s[1])
         THEN IF Len(s) > 1 /\ ~IsAlnum(s[2])
              THEN ReplaceNonAlnumRuns(Tail(s))
              ELSE <<"-">> \o ReplaceNonAlnumRuns(Tail(s))
         ELSE <<s[1]>> \o ReplaceNonAlnumRuns(Tail(s))

buildWebfontsSlug(name) == StripHyphens(ReplaceNonAlnumRuns(ToLower(name)))

\* what can happen to one download: the request fails after its retries, the
\* archive cannot be read, it holds no requested variant, one or two files
\* are written, or the second write fails after the first file was written
DownloadEvents ==
    {"request-failed", "bad-zip", "no-matching-variants", "one-file", "two-files",
     "write-failed"}

\* downloadFamilyFromWebfontsHelper: the object returned or the exception,
\* and the number of files written
downloadFamilyFromWebfontsHelper(familyName, event) ==
    IF buildWebfontsSlug(familyName) = <<>>
    THEN [threw |-> FALSE, count |-> 0, manual |-> TRUE, message |-> "empty-family-name",
          written |-> 0]
    ELSE IF event = "request-failed"
    THEN [threw |-> FALSE, count |-> 0, manual |-> TRUE, message |-> "HTTP 404", written |-> 0]
    ELSE IF event = "bad-zip"
    THEN [threw |-> TRUE, count |-> 0, manual |-> FALSE, message |-> "bad-zip", written |-> 0]
    ELSE IF event = "no-matching-variants"
    THEN [threw |-> FALSE, count |-> 0, manual |-> TRUE, message |-> "no-matching-variants",
          written |-> 0]
    ELSE IF event = "one-file"
    THEN [threw |-> FALSE, count |-> 1, manual |-> FALSE, message |-> "", written |-> 1]
    ELSE IF event = "two-files"
    THEN [threw |-> FALSE, count |-> 2, manual |-> FALSE, message |-> "", written |-> 2]
    ELSE [threw |-> TRUE, count |-> 0, manual |-> FALSE, message |-> "write-failed",
          written |-> 1]

\* try { result = await download(..) } catch (e) { result = { count: 0, manual: true, .. } }
ResultOrCaught(got) ==
    IF got.threw THEN [got EXCEPT !.threw = FALSE, !.count = 0, !.manual = TRUE] ELSE got

\* a manual set that is never added to
KeepManualSet(manualSet, name) == manualSet

\* manualSet.add(usage.name)
AddManual(manualSet, name) == manualSet \cup {name}

FontInit ==
    /\ fontFound \in FontLists
    /\ fontKeys = [i \in 1..Len(fontFound) |-> FontKey(fontFound[i])]
    /\ fontUsages = <<>>
    /\ fontIndex = 0
    /\ fontAttempts = <<>>
    /\ fontManualSet = {}
    /\ fontDownloaded = 0
    /\ fontPc = "collect"
    /\ fontResult = [kind |-> "pending"]

\* the usage map; without a family the action returns { ok: 0, manual: 0 }
FontsCollect ==
    /\ fontPc = "collect"
    /\ fontUsages' = CollectUsages(fontKeys, 1, <<>>)
    /\ IF fontUsages' = <<>>
       THEN fontPc' = "done" /\ fontResult' = [kind |-> "returned", ok |-> 0, manual |-> 0]
       ELSE fontPc' = "loop" /\ UNCHANGED fontResult
    /\ UNCHANGED <<fontFound, fontKeys, fontIndex, fontAttempts, fontManualSet, fontDownloaded,
                   notFontVars>>

\* one pass of the loop over usages: the download, its result, the sleep
FontsAttemptFamily ==
    /\ fontPc = "loop"
    /\ fontIndex < Len(fontUsages)
    /\ \E event \in DownloadEvents :
         LET usage  == fontUsages[fontIndex + 1]
             got    == downloadFamilyFromWebfontsHelper(usage.name, event)
             result == ResultOrCaught(got)
         IN  /\ fontAttempts' = Append(fontAttempts,
                                       [name |-> usage.name, threw |-> got.threw,
                                        count |-> result.count, written |-> got.written])
             /\ IF result.count > 0
                THEN fontDownloaded' = fontDownloaded + 1 /\ UNCHANGED fontManualSet
                ELSE fontManualSet' = AddManual(fontManualSet, usage.name)
                     /\ UNCHANGED fontDownloaded
    /\ fontIndex' = fontIndex + 1
    /\ UNCHANGED <<fontFound, fontKeys, fontUsages, fontPc, fontResult, notFontVars>>

\* writeManualList and the return; the write of fonts.txt may throw
FontsFinish ==
    /\ fontPc = "loop"
    /\ fontIndex = Len(fontUsages)
    /\ \E writable \in BOOLEAN :
         IF writable \/ fontManualSet = {}
         THEN /\ fontPc' = "done"
              /\ fontResult' = [kind |-> "returned", ok |-> fontDownloaded,
                                manual |-> Cardinality(fontManualSet \ {<<>>})]
         ELSE /\ fontPc' = "failed"
              /\ fontResult' = [kind |-> "threw"]
    /\ UNCHANGED <<fontFound, fontKeys, fontUsages, fontIndex, fontAttempts, fontManualSet,
                   fontDownloaded, notFontVars>>

InitFont == FontInit /\ SlugIdle /\ WalkIdle /\ AliasIdle /\ UpdateIdle /\ FnIdle /\ RetryIdle /\ IconIdle

NextFont == FontsCollect \/ FontsAttemptFamily \/ FontsFinish

SpecFont == InitFont /\ [][NextFont]_vars

(***************************************************************************)
(* exportIcons                                                             *)
(***************************************************************************)
MaxIcons == 2

\* leaf names of icon nodes: two that slug to the same base, one that slugs
\* to the base uniqName gives a second 'Icon', and another one
IconLeafNames ==
    {<<"I","c","o","n">>, <<"I","c","o","n"," ","2">>, <<"C","l","o","s","e">>}

IconNodeIds == <<"7:1", "7:2", "7:3", "7:4">>

\* the lists of 0..MaxIcons icon nodes, as traverseFrame records them
IconNodeLists ==
    UNION { { [i \in 1..n |-> [idPath |-> IconNodeIds[i], namePath |-> <<f[i]>>]] :
                f \in [1..n -> IconLeafNames] } : n \in 0..MaxIcons }

\* slug(node.namePath[node.namePath.length - 1] || "icon")
W_icon == <<"i","c","o","n">>

LeafSlug(node) ==
    slug(IF node.namePath = <<>> \/ node.namePath[Len(node.namePath)] = <<>>
         THEN W_icon ELSE node.namePath[Len(node.namePath)])

\* uniqName: base, or the first of base-2, base-3, .. that is not used
RECURSIVE uniqNameFrom(_, _, _)
uniqNameFrom(base, used, i) ==
    IF (base \o <<"-">> \o NatToStr(i)) \in used THEN uniqNameFrom(base, used, i + 1)
    ELSE base \o <<"-">> \o NatToStr(i)

uniqName(base, used) == IF base \in used THEN uniqNameFrom(base, used, 2) ELSE base

\* what the download of one image can end with
ImageFetches == {"ok", "failed"}

NoImages == {}

IconInit ==
    /\ iconNodes \in IconNodeLists
    /\ iconUsed = {}
    /\ iconRows = <<>>
    /\ iconOk = 0
    /\ iconMap = NoImages
    /\ iconIndex = 0
    /\ iconRetries = <<>>
    /\ iconPc = "svgRequest"
    /\ iconResult = [kind |-> "pending"]

\* if (!iconNodes.length) return { table: [], ok: 0 }
IconReturnsEmpty ==
    /\ iconPc = "svgRequest"
    /\ iconNodes = <<>>
    /\ iconPc' = "done"
    /\ iconResult' = [kind |-> "returned", table |-> <<>>, ok |-> 0]
    /\ UNCHANGED <<iconNodes, iconUsed, iconRows, iconOk, iconMap, iconIndex, iconRetries,
                   notIconVars>>

\* the request of the SVG urls of the chunk: the ids that got a url, or the
\* Error of figmaGET
IconSvgRequest ==
    /\ iconPc = "svgRequest"
    /\ iconNodes # <<>>
    /\ \/ \E images \in SUBSET {iconNodes[i].idPath : i \in 1..Len(iconNodes)} :
              /\ iconMap' = images
              /\ iconPc' = "svgNodes"
              /\ UNCHANGED iconResult
       \/ /\ iconPc' = "failed"
          /\ iconResult' = [kind |-> "threw"]
          /\ UNCHANGED iconMap
    /\ UNCHANGED <<iconNodes, iconUsed, iconRows, iconOk, iconIndex, iconRetries, notIconVars>>

SvgStatus(hasUrl, fetched) ==
    IF ~hasUrl THEN "none" ELSE IF fetched = "ok" THEN "ok" ELSE "warn"

\* the body of the loop over the nodes of the chunk
IconSvgNode ==
    /\ iconPc = "svgNodes"
    /\ iconIndex < Len(iconNodes)
    /\ \E fetched \in ImageFetches :
         LET node   == iconNodes[iconIndex + 1]
             base   == uniqName(LeafSlug(node), iconUsed)
             status == SvgStatus(node.idPath \in iconMap, fetched)
         IN  /\ iconUsed' = iconUsed \cup {base}
             /\ iconRows' = Append(iconRows, [name |-> base, fmt |-> "svg",
                                              status |-> status, svg |-> status])
             /\ iconOk' = IF status = "ok" THEN iconOk + 1 ELSE iconOk
    /\ iconIndex' = iconIndex + 1
    /\ UNCHANGED <<iconNodes, iconMap, iconRetries, iconPc, iconResult, notIconVars>>

\* needPng, as the places of its rows in rows; it is filtered once, when the
\* status of a row is still the one its SVG attempt gave
NeedPng(rows) == SelectSeq([i \in 1..Len(rows) |-> i], LAMBDA i : rows[i].svg # "ok")

\* the ids of the PNG request: the nodes whose leaf slug is the name of a row
\* of the chunk
PngIds(nodes, rows) ==
    {nodes[i].idPath : i \in {j \in 1..Len(nodes) :
        \E k \in Range(NeedPng(rows)) : LeafSlug(nodes[j]) = rows[k].name}}

\* the end of the SVG loop: without a row to retry, or without an id to ask
\* for, the rows are returned as they are
IconPngRequest ==
    /\ iconPc = "svgNodes"
    /\ iconIndex = Len(iconNodes)
    /\ IF NeedPng(iconRows) = <<>> \/ PngIds(iconNodes, iconRows) = {}
       THEN /\ iconPc' = "done"
            /\ iconResult' = [kind |-> "returned", table |-> iconRows, ok |-> iconOk]
            /\ UNCHANGED <<iconMap, iconIndex>>
       ELSE \/ \E images \in SUBSET PngIds(iconNodes, iconRows) :
                  /\ iconMap' = images
                  /\ iconPc' = "pngRows"
                  /\ iconIndex' = 0
                  /\ UNCHANGED iconResult
            \/ /\ iconPc' = "failed"
               /\ iconResult' = [kind |-> "threw"]
               /\ UNCHANGED <<iconMap, iconIndex>>
    /\ UNCHANGED <<iconNodes, iconUsed, iconRows, iconOk, iconRetries, notIconVars>>

\* iconNodes.find(n => slug(leaf name of n) === row.name): its place, or 0
FindNodeOfRow(nodes, rowName) ==
    IF \E i \in 1..Len(nodes) : LeafSlug(nodes[i]) = rowName
    THEN CHOOSE i \in 1..Len(nodes) :
             /\ LeafSlug(nodes[i]) = rowName
             /\ \A j \in 1..(i - 1) : LeafSlug(nodes[j]) # rowName
    ELSE 0

\* the body of the loop over the rows of needPng
IconPngRow ==
    /\ iconPc = "pngRows"
    /\ iconIndex < Len(NeedPng(iconRows))
    /\ \E fetched \in ImageFetches :
         LET r    == NeedPng(iconRows)[iconIndex + 1]
             at   == FindNodeOfRow(iconNodes, iconRows[r].name)
         IN  IF at = 0 THEN UNCHANGED <<iconRows, iconOk, iconRetries>>
             ELSE /\ iconRetries' = Append(iconRetries, [row |-> r, id |-> iconNodes[at].idPath])
                  /\ IF iconNodes[at].idPath \notin iconMap
                     THEN UNCHANGED <<iconRows, iconOk>>
                     ELSE IF fetched = "ok"
                     THEN /\ iconRows' = [iconRows EXCEPT ![r].fmt = "png", ![r].status = "ok"]
                          /\ iconOk' = iconOk + 1
                     ELSE /\ iconRows' = [iconRows EXCEPT ![r].fmt = "png", ![r].status = "warn"]
                          /\ UNCHANGED iconOk
    /\ iconIndex' = iconIndex + 1
    /\ UNCHANGED <<iconNodes, iconUsed, iconMap, iconPc, iconResult, notIconVars>>

IconReturn ==
    /\ iconPc = "pngRows"
    /\ iconIndex = Len(NeedPng(iconRows))
    /\ iconPc' = "done"
    /\ iconResult' = [kind |-> "returned", table |-> iconRows, ok |-> iconOk]
    /\ UNCHANGED <<iconNodes, iconUsed, iconRows, iconOk, iconMap, iconIndex, iconRetries,
                   notIconVars>>

InitIcon ==
    IconInit /\ SlugIdle /\ WalkIdle /\ AliasIdle /\ UpdateIdle /\ FnIdle /\ RetryIdle /\ FontIdle

NextIcon == IconReturnsEmpty \/ IconSvgRequest \/ IconSvgNode \/ IconPngRequest \/ IconPngRow \/ IconReturn

SpecIcon == InitIcon /\ [][NextIcon]_vars

(***************************************************************************)
(* C10: the candidate list of buildSlugCandidates / buildVarSlugCandidates *)
(* holds no empty string and no duplicate, and is ordered by               *)
(* non-increasing length, candidates of equal length in the order in which *)
(* addSlug generated them.                                                 *)
(***************************************************************************)
SlugGenerationOrder ==
    IF slugInput.kind = "path"
    THEN GeneratedSlugs(ExplodedTokens(PathSegments(slugInput.names)))
    ELSE GeneratedSlugs(ExplodedTokens(VarPieces(slugInput.name)))

FirstIndex(s, x) == CHOOSE i \in 1..Len(s) : s[i] = x /\ \A j \in 1..(i - 1) : s[j] # x

C10_CandidatesOrdered ==
    slugPc = "done" =>
        LET gen   == SlugGenerationOrder
            first == [x \in Range(gen) |-> FirstIndex(gen, x)]
        IN  /\ \A i \in 1..Len(slugOut) : slugOut[i] # <<>> /\ slugOut[i] \in Range(gen)
            /\ \A i, j \in 1..Len(slugOut) : i < j =>
                  /\ slugOut[i] # slugOut[j]
                  /\ Len(slugOut[i]) >= Len(slugOut[j])
                  /\ Len(slugOut[i]) = Len(slugOut[j]) => first[slugOut[i]] < first[slugOut[j]]

\* a list with candidates of different lengths and a tie between two of them,
\* from a path whose raw segments need trimming and the "node" fall-back
C10_Witness ==
    /\ slugPc = "done"
    /\ Len(slugOut) >= 5
    /\ \E i \in 1..(Len(slugOut) - 1) : Len(slugOut[i]) = Len(slugOut[i + 1])
    /\ \E i \in 1..(Len(slugOut) - 1) : Len(slugOut[i]) > Len(slugOut[i + 1])

(***************************************************************************)
(* Reading a frame and a formatted colour back, for the walker's claims    *)
(***************************************************************************)
RECURSIVE NodeAt(_, _)
NodeAt(root, path) ==
    IF path = <<>> THEN root ELSE NodeAt(root.children[path[1]], Tail(path))

\* the nodes from the root down to the node at path
NodesAlong(root, path) == [k \in 1..(Len(path) + 1) |-> NodeAt(root, SubSeq(path, 1, k - 1))]

NamesAlong(root, path) ==
    LET nodes == NodesAlong(root, path)
        named == SelectSeq(nodes, LAMBDA n : n.name # <<>>)
    IN  [k \in 1..Len(named) |-> named[k].name]

RECURSIVE ProductOf(_)
ProductOf(factors) ==
    IF factors = <<>> THEN One ELSE Mul(factors[1], ProductOf(Tail(factors)))

\* the clamped opacities of the ancestors and of the node itself
OpacitiesAlong(root, path) ==
    LET nodes == NodesAlong(root, path)
    IN  [k \in 1..Len(nodes) |-> clamp01(OrOne(nodes[k].opacity))]

PaintOf(e) == NodeAt(frame, e.node)[e.at[1]][e.at[2]]

ColorOf(e) == IF e.at[3] = 0 THEN PaintOf(e).color ELSE PaintOf(e).gradientStops[e.at[3]].color

\* clamp01(opacities of the ancestors and the node x paint opacity x colour alpha)
ExpectedAlpha(e) ==
    clamp01(Mul(Mul(ProductOf(OpacitiesAlong(frame, e.node)),
                    clamp01(OrOne(PaintOf(e).opacity))),
                OrOne(ColorOf(e).a)))

DigitValue(c) == (CHOOSE i \in 1..10 : DigitSeq[i] = c) - 1

AllDigits(s) == s # <<>> /\ \A i \in 1..Len(s) : IsDigit(s[i])

RECURSIVE StrToNat(_)
StrToNat(s) ==
    IF s = <<>> THEN 0 ELSE 10 * StrToNat(SubSeq(s, 1, Len(s) - 1)) + DigitValue(s[Len(s)])

\* a decimal numeral with at most three decimals, in thousandths
IsDecimal(s) ==
    LET dots == {i \in 1..Len(s) : s[i] = "."}
    IN  \/ AllDigits(s)
        \/ /\ Cardinality(dots) = 1
           /\ LET i == CHOOSE d \in dots : TRUE
              IN  /\ AllDigits(SubSeq(s, 1, i - 1))
                  /\ AllDigits(SubSeq(s, i + 1, Len(s)))
                  /\ Len(s) - i <= 3

DecimalToThousandths(s) ==
    LET dots == {i \in 1..Len(s) : s[i] = "."}
    IN  IF dots = {} THEN 1000 * StrToNat(s)
        ELSE LET i    == CHOOSE d \in dots : TRUE
                 frac == SubSeq(s, i + 1, Len(s))
                 pad  == [k \in 1..3 |-> IF k <= Len(frac) THEN frac[k] ELSE "0"]
             IN  1000 * StrToNat(SubSeq(s, 1, i - 1)) + StrToNat(pad)

\* the four components of "rgba(r, g, b, a)", or <<>> when the text has another shape
RgbaParts(v) ==
    IF StartsWith(v, <<"r","g","b","a","(">>) /\ v[Len(v)] = ")"
    THEN LET parts == SplitOn(SubSeq(v, 6, Len(v) - 1), ",", <<>>)
         IN  IF /\ Len(parts) = 4
                /\ \A k \in 2..4 : Len(parts[k]) >= 2 /\ parts[k][1] = " "
             THEN <<parts[1]>> \o [k \in 1..3 |-> Tail(parts[k + 1])]
             ELSE <<>>
    ELSE <<>>

IsHexColor(v) ==
    /\ Len(v) = 7
    /\ v[1] = "#"
    /\ \A i \in 2..7 : v[i] \in Range(HexDigitSeq)

IsRgbaColor(v) ==
    LET parts == RgbaParts(v)
    IN  /\ parts # <<>>
        /\ \A k \in 1..3 : AllDigits(parts[k]) /\ StrToNat(parts[k]) <= 255
        /\ IsDecimal(parts[4])
        /\ DecimalToThousandths(parts[4]) < 1000

\* the alpha a formatted colour shows, in thousandths: 1 for the hex shape
EmittedAlpha(v) ==
    IF v[1] = "#" THEN 1000 ELSE DecimalToThousandths(RgbaParts(v)[4])

ColorWrites == {i \in 1..Len(walkAcc.log) : walkAcc.log[i].kind = "color"}

W_rgba_255_0_0_05 ==
    <<"r","g","b","a","(","2","5","5",","," ","0",","," ","0",","," ","0",".","5",")">>

VisibleAlong(path) == \A k \in 1..(Len(path) + 1) : NodesAlong(frame, path)[k].visible # FALSE

\* <<slug, kind, value>> for every write of the history and every slug
\* candidate of the ancestry path of the node that wrote
WritesBySlug ==
    LET log    == walkAcc.log
        places == {log[i].node : i \in 1..Len(log)}
    IN  UNION { LET slugs == Range(buildSlugCandidates(NamesAlong(frame, p)))
                IN  { <<k, log[i].kind, log[i].value>> :
                        k \in slugs,
                        i \in {j \in 1..Len(log) : log[j].node = p /\ log[j].kind # "font"} }
              : p \in places }

C8_InvisibleSubtreeSkipped ==
    walkPc = "done" =>
        LET written == WritesBySlug
        IN  /\ \A i \in 1..Len(walkAcc.log) : VisibleAlong(walkAcc.log[i].node)
            /\ \A i \in 1..Len(walkAcc.iconNodes) : VisibleAlong(walkAcc.iconNodes[i].node)
            /\ \A kind \in {"color", "fontSize", "lineHeight", "shadow"} :
                  \A k \in DOMAIN walkAcc[MapOfKind(kind)] :
                      <<k, kind, walkAcc[MapOfKind(kind)][k]>> \in written
            /\ \A f \in Range(walkAcc.fonts) :
                  f \in {walkAcc.log[i].value :
                            i \in {j \in 1..Len(walkAcc.log) : walkAcc.log[j].kind = "font"}}

\* a visible root that wrote, an invisible child, a visible grandchild
C8_Witness ==
    /\ walkPc = "done"
    /\ frame.visible = TRUE
    /\ NodeAt(frame, <<1>>).visible = FALSE
    /\ NodeAt(frame, <<1, 1>>).visible = TRUE
    /\ walkAcc.log # <<>>
    /\ walkAcc.iconNodes # <<>>

(***************************************************************************)
(* C9 as stated: every colour traverseFrame gets from rgbaOrHex is '#' and *)
(* six lowercase hex digits, or rgba(r, g, b, a) with r, g, b integers in  *)
(* 0..255 and 0 <= a < 1.                                                  *)
(***************************************************************************)
C9_ColorShape ==
    walkPc = "done" =>
        \A i \in ColorWrites :
            IsHexColor(walkAcc.log[i].value) \/ IsRgbaColor(walkAcc.log[i].value)

(***************************************************************************)
(* C3: resolveVariableAlias terminates on a cyclic alias chain             *)
(***************************************************************************)
\* an alias whose target is in the catalog
IsLiveAlias(map, v) == IsAliasValue(v) /\ v.id \in DOMAIN map

\* the value of the target of a live alias in the selected mode
TargetValue(map, v) == ValueInMode(map[v.id].valuesByMode, SelectedMode)

\* one hop along the chain; a value that is no live alias stays
Hop(map, v) == IF IsLiveAlias(map, v) THEN TargetValue(map, v) ELSE v

\* n hops along the chain
RECURSIVE Hops(_, _, _)
Hops(map, v, n) ==
    IF n = 0 THEN v
    ELSE IF n = 1 THEN Hop(map, v)
    ELSE LET half == Hops(map, v, n \div 2)
         IN  IF IsLiveAlias(map, half) THEN Hops(map, half, n - (n \div 2)) ELSE half

\* still a live alias after as many hops as the catalog has variables: the
\* chain from the first value runs into a cycle
StartsOnCycle ==
    IsLiveAlias(aliasMap, Hops(aliasMap, aliasStart, Cardinality(DOMAIN aliasMap)))

\* C3: the depth of the invocations never exceeds the limit plus one, and a
\* resolution that starts on a cyclic alias chain always comes to return, and
\* returns null
C3_CycleResolvesToNull ==
    /\ [](aliasDepth <= AliasDepthLimit + 1)
    /\ []((aliasPc = "run" /\ StartsOnCycle)
            => <>(aliasPc = "done" /\ aliasResult = JsNull))

\* two variables that alias each other: the resolution has returned null from
\* the invocation at depth 51
C3_Witness ==
    /\ aliasPc = "done"
    /\ DOMAIN aliasMap = {1, 2}
    /\ aliasStart = VariableAlias(1)
    /\ TargetValue(aliasMap, VariableAlias(1)) = VariableAlias(2)
    /\ TargetValue(aliasMap, VariableAlias(2)) = VariableAlias(1)
    /\ aliasResult = JsNull
    /\ aliasDepth = AliasDepthLimit + 1

(***************************************************************************)
(* C4: an alias chain of k hops that ends in a concrete value              *)
(***************************************************************************)
\* the value the chain from the first value ends in
ChainEnd == Hops(aliasMap, aliasStart, Cardinality(DOMAIN aliasMap))

\* the chain ends in a concrete value: every variable on it has a value in the
\* selected mode and the last value is no alias
EndsInLiteral == ~IsAliasValue(ChainEnd) /\ ChainEnd # JsUndefined

\* the number of alias hops from the first value to the concrete value
ChainHops ==
    CHOOSE k \in 0..Cardinality(DOMAIN aliasMap) :
        /\ ~IsLiveAlias(aliasMap, Hops(aliasMap, aliasStart, k))
        /\ \A j \in 0..(k - 1) : IsLiveAlias(aliasMap, Hops(aliasMap, aliasStart, j))

\* C4: for a chain of k hops whose last value is concrete, the resolution
\* returns that value when k <= 50 and null when k > 50
C4_ChainResolvesToLiteral ==
    (aliasPc = "done" /\ EndsInLiteral)
        => aliasResult = (IF ChainHops <= AliasDepthLimit THEN ChainEnd ELSE JsNull)

\* the same for the chains whose last value is truthy
C4_TruthyChainResolvesToLiteral ==
    (aliasPc = "done" /\ EndsInLiteral /\ ~Falsy(ChainEnd))
        => aliasResult = (IF ChainHops <= AliasDepthLimit THEN ChainEnd ELSE JsNull)

\* chains of exactly 50 and of 51 hops have been resolved
C4_BoundaryReached ==
    /\ aliasPc = "done"
    /\ EndsInLiteral
    /\ ChainHops = AliasDepthLimit
    /\ aliasResult = Blue

(***************************************************************************)
(* C1: the precedence of the three token sources in the merge              *)
(***************************************************************************)
TokenMapNames == {"colorsBySlug", "fontSizeBySlug", "lineHeightBySlug", "shadowsBySlug"}

\* the run is past the eight calls of mergeSlugMaps
Merged == updPc \in {"read", "backup", "write", "done"}

\* what the walk of the fetched frame alone gives
InlineTokens == traverseFrame(updFrame, createTraversalAccumulator, <<>>, One, <<>>)

\* the value of the first of inline, styles, variables that defines the slug
ValueByPrecedence(m, k) ==
    IF k \in DOMAIN InlineTokens[m] THEN InlineTokens[m][k]
    ELSE IF k \in DOMAIN updStyleTokens[m] THEN updStyleTokens[m][k]
    ELSE updVariableTokens[m][k]

\* C1: after the merge, for each of the four token kinds, every slug has the
\* value of the highest-precedence source that defines it: the frame-inline
\* value if the walk set the slug, else the published-style value, else the
\* published-variable value
C1_HighestPrecedenceWins ==
    Merged =>
        \A m \in TokenMapNames :
            /\ DOMAIN updAcc[m] = (DOMAIN InlineTokens[m]) \cup (DOMAIN updStyleTokens[m])
                                      \cup (DOMAIN updVariableTokens[m])
            /\ \A k \in DOMAIN updAcc[m] : updAcc[m][k] = ValueByPrecedence(m, k)

(***************************************************************************)
(* C2: when the stylesheet is written                                      *)
(***************************************************************************)
FailedFetches == {i \in 1..Len(updFetches) : ~updFetches[i].ok}

\* the part of C2 about the file: written at most once, after the backup, with
\* the text of replaceScss, and only when a variable changed
WrittenOnceAfterBackup ==
    /\ scssWrites <= 1
    /\ scssWrites = 1 =>
          /\ updPc = "done"
          /\ bakFile # NoFile
          /\ bakFile.text = updContent
          /\ replaceScss(updContent, updUpdates).changed > 0
          /\ scssFile.text = replaceScss(updContent, updUpdates).text
    /\ (scssWrites = 0 /\ bakFile # NoFile) => scssFile = bakFile
    /\ updPc = "failed" => (scssWrites = 0 /\ updError # <<>>)

IsToleratedFailure(f) ==
    /\ ~f.ok
    /\ f.endpoint \in {"variables/local", "variables/published"}
    /\ IsUnavailableMessage(f.message)

UntoleratedFailures == {i \in FailedFetches : ~IsToleratedFailure(updFetches[i])}

RECURSIVE HopsInMode(_, _, _, _)
HopsInMode(map, v, modeId, n) ==
    IF n = 0 \/ ~IsLiveAlias(map, v) THEN v
    ELSE IF n = 1 THEN ValueInMode(map[v.id].valuesByMode, modeId)
    ELSE HopsInMode(map, HopsInMode(map, v, modeId, n \div 2), modeId, n - (n \div 2))

\* the value the chain of an alias reaches within the bound
ChainEndInMode(map, v, modeId) == HopsInMode(map, v, modeId, AliasDepthLimit)

\* still an alias: of a variable the catalog does not have, or after more hops
\* than the bound (so also on a cycle)
EndsUnresolved(reached) == IsAliasValue(reached) \/ reached = JsUndefined

\* the value of the variable in its selected mode is an alias and the chain
\* ends at a missing target, at a target without a value in the mode, or not
\* within the bound
IsUnresolvableIn(variable, modeId, variableMap) ==
    /\ modeId # NoMode
    /\ IsAliasValue(ValueInMode(variable.valuesByMode, modeId))
    /\ EndsUnresolved(ChainEndInMode(variableMap,
                                     ValueInMode(variable.valuesByMode, modeId), modeId))

IsUnresolvable(variable, meta) ==
    IsUnresolvableIn(variable, chooseVariableModeId(variable, MapById(meta.collections)),
                     MapById(meta.variables))

\* the list without its i-th entry
WithoutAt(list, i) == SubSeq(list, 1, i - 1) \o SubSeq(list, i + 1, Len(list))

\* the catalog of the run, once fetched
CatalogFetched == Merged /\ updMeta # NoMeta

\* C5: a variable of the fetched catalog whose alias cannot be resolved
\* contributes no token and the collection does not fail, and the tokens of
\* the catalog are those of the catalog without that variable
C5_UnresolvableContributesNothing ==
    CatalogFetched =>
        \A i \in 1..Len(updMeta.variables) :
            IsUnresolvable(updMeta.variables[i], updMeta) =>
                /\ VariableContribution(updMeta.variables[i], MapById(updMeta.collections),
                                        MapById(updMeta.variables)) = NoContribution
                /\ updVariableTokens
                     = VariableTokensOf([updMeta EXCEPT !.variables = WithoutAt(@, i)])

\* a catalog with an alias of a missing variable, an alias of a variable
\* without a value in the mode and an alias at the head of a chain longer than
\* the bound, beside variables that gave their tokens
C5_Witness ==
    /\ CatalogFetched
    /\ updPc = "done"
    /\ \A id \in {11, 12, 13} :
          \E i \in 1..Len(updMeta.variables) :
              /\ updMeta.variables[i].id = id
              /\ IsUnresolvable(updMeta.variables[i], updMeta)
    /\ DOMAIN updVariableTokens.colorsBySlug # {}
    /\ DOMAIN updVariableTokens.fontSizeBySlug # {}
    /\ \A k \in DOMAIN updVariableTokens.colorsBySlug : ~Contains(k, <<"g","h","o","s","t">>)

(***************************************************************************)
(* C6: an endpoint of the styles or of the variables that fails            *)
(***************************************************************************)
LastFetch == updFetches[Len(updFetches)]

\* the run stopped with the error of its last request
AbortedByFetch ==
    /\ updPc = "failed"
    /\ updFetches # <<>>
    /\ ~LastFetch.ok
    /\ updError = LastFetch.message

FailedAt(endpoint) == \E i \in FailedFetches : updFetches[i].endpoint = endpoint

RequestedAt(endpoint) == \E i \in 1..Len(updFetches) : updFetches[i].endpoint = endpoint

\* C6: a failed request of the published-styles endpoint or of the variables
\* endpoint does not stop the run; the tokens of the styles are then four
\* empty maps, and so are the tokens of the variables when no request of the
\* variables endpoint succeeded
C6_FailedEndpointGivesEmptyTokens ==
    /\ AbortedByFetch
          => LastFetch.endpoint \notin {"styles", "variables/local", "variables/published"}
    /\ (FailedAt("styles") /\ updPc # "failed") => updStyleTokens = emptyStyleTokens
    /\ (/\ FailedAt("variables/local")
        /\ FailedAt("variables/published") \/ ~RequestedAt("variables/published")
        /\ updPc # "failed")
          => updVariableTokens = emptyStyleTokens

(***************************************************************************)
(* C11: the candidates are the joins of the slices and of the pairs        *)
(***************************************************************************)
\* the tokens of the segments that buildSlugCandidates retains
RetainedTokens == ExplodedTokens(PathSegments(slugInput.names))

\* every contiguous subsequence t[i..j], i <= j, and every pair (t[i], t[j]), i < j
SlicesAndPairs(t) ==
    {SubSeq(t, p[1], p[2]) : p \in {q \in (1..Len(t)) \X (1..Len(t)) : q[1] <= q[2]}}
    \cup {<<t[p[1]], t[p[2]]>> : p \in {q \in (1..Len(t)) \X (1..Len(t)) : q[1] < q[2]}}

HyphenJoinLower(parts) == ToLower(Join(parts, <<"-">>))

IsAlnumToken(token) == token # <<>> /\ \A i \in 1..Len(token) : IsAlnum(token[i])

AllAlnumTokens(t) == \A i \in 1..Len(t) : IsAlnumToken(t[i])

\* C11 as stated: for every name path, the set of the candidates of
\* buildSlugCandidates is exactly the set of the lowercase hyphen-joins of the
\* contiguous subsequences and of the pairs of the retained tokens.
C11_CandidatesAreJoins ==
    (slugPc = "done" /\ slugInput.kind = "path") =>
        Range(slugOut) = {HyphenJoinLower(parts) : parts \in SlicesAndPairs(RetainedTokens)}

\* C11 amended: when every retained token is alphanumeric, the set of the
\* candidates of buildSlugCandidates is exactly the set of the lowercase
\* hyphen-joins of the contiguous subsequences and of the pairs of the tokens.
C11_AlnumCandidatesAreJoins ==
    (slugPc = "done" /\ slugInput.kind = "path" /\ AllAlnumTokens(RetainedTokens)) =>
        Range(slugOut) = {HyphenJoinLower(parts) : parts \in SlicesAndPairs(RetainedTokens)}

W_headline_1 == <<"h","e","a","d","l","i","n","e","-","1">>
W_desktop_headline_1 == <<"d","e","s","k","t","o","p","-">> \o W_headline_1
W_desktop_1 == <<"d","e","s","k","t","o","p","-","1">>

\* ["Desktop", "Headline 1"]: three tokens, the slices headline-1 and
\* desktop-headline-1 and the non-contiguous pair desktop-1
C11_Witness ==
    /\ slugPc = "done"
    /\ slugInput.kind = "path"
    /\ slugInput.names = << <<"D","e","s","k","t","o","p">>, <<"H","e","a","d","l","i","n","e"," ","1">> >>
    /\ AllAlnumTokens(RetainedTokens)
    /\ Len(RetainedTokens) = 3
    /\ {W_headline_1, W_desktop_headline_1, W_desktop_1} \subseteq Range(slugOut)

(***************************************************************************)
(* C12: segments that are structural names are dropped                     *)
(***************************************************************************)
\* the structural words as the statement lists them
StatedStructuralWords ==
    {<<"r","e","c","t","a","n","g","l","e">>,
     <<"f","r","a","m","e">>,
     <<"g","r","o","u","p">>,
     <<"v","e","c","t","o","r">>,
     <<"i","n","s","t","a","n","c","e">>,
     <<"c","o","m","p","o","n","e","n","t">>,
     <<"m","a","s","k">>,
     <<"l","a","y","e","r">>,
     <<"u","n","i","o","n">>,
     <<"s","u","b","t","r","a","c","t">>,
     <<"p","a","t","h">>,
     <<"a","r","r","o","w">>,
     <<"i","c","o","n">>,
     <<"b","a","c","k","g","r","o","u","n","d">>,
     <<"b","g">>}

\* the lowercase tokens of a list of segments
LowerTokensOf(segments) ==
    {ToLower(token) : token \in UNION {Range(splitSegmentIntoTokens(segments[i])) :
                                          i \in 1..Len(segments)}}

\* the lowercase tokens that only segments named by one of the words bring
TokensOnlyFrom(words, names) ==
    LET normalized == normalizePathNames(names)
        named      == SelectSeq(normalized, LAMBDA n : ToLower(n) \in words)
        others     == SelectSeq(normalized, LAMBDA n : ToLower(n) \notin words)
    IN  IF others = <<>> THEN {}
        ELSE LowerTokensOf(named) \ LowerTokensOf(others)

\* no candidate has a hyphen-separated part that is one of the tokens
NoCandidateHolds(tokens) ==
    \A i \in 1..Len(slugOut) : Range(SplitOn(slugOut[i], "-", <<>>)) \cap tokens = {}

\* C12 as stated: when the name path has a segment that is not a structural
\* word, no candidate of buildSlugCandidates holds a token that comes only from
\* segments whose whole name is one of rectangle, frame, group, vector,
\* instance, component, mask, layer, union, subtract, path, arrow, icon,
\* background, bg.
C12_StatedStructuralWordsDropped ==
    (slugPc = "done" /\ slugInput.kind = "path") =>
        NoCandidateHolds(TokensOnlyFrom(StatedStructuralWords, slugInput.names))

\* C12 amended: when the name path has a segment that is not in
\* GENERIC_NODE_NAMES, no candidate of buildSlugCandidates holds a token that
\* comes only from segments whose whole name is, case-insensitively, in
\* GENERIC_NODE_NAMES.
C12_GenericNamesDropped ==
    (slugPc = "done" /\ slugInput.kind = "path") =>
        NoCandidateHolds(TokensOnlyFrom(GENERIC_NODE_NAMES, slugInput.names))

W_primary_button == <<"p","r","i","m","a","r","y","-","b","u","t","t","o","n">>

\* ["Frame", "Primary  Button"]: the segment Frame is dropped
C12_Witness ==
    /\ slugPc = "done"
    /\ slugInput.kind = "path"
    /\ TokensOnlyFrom(GENERIC_NODE_NAMES, slugInput.names) = {W_frame}
    /\ slugOut[1] = W_primary_button
    /\ W_frame \notin Range(slugOut)

(***************************************************************************)
(* C13: the candidate list of an empty or an all-generic name path         *)
(***************************************************************************)
AllGeneric(names) ==
    \A i \in 1..Len(normalizePathNames(names)) : IsGenericName(normalizePathNames(names)[i])

\* the token map after a value is assigned under the returned candidates
AssignedUnderCandidates == assignValueBySlug(EmptyMap, slugOut, <<"#","0","0","0">>)

\* C13 as stated: buildSlugCandidates returns an empty list for an empty name
\* path and for a name path whose segments are all structural names, and such
\* a path writes no entry to a token map.
C13_AllGenericGivesNoCandidates ==
    (slugPc = "done" /\ slugInput.kind = "path" /\ AllGeneric(slugInput.names)) =>
        /\ slugOut = <<>>
        /\ AssignedUnderCandidates = EmptyMap

\* C13 amended: buildSlugCandidates returns an empty list exactly for a name
\* path with no non-blank segment, and only then no entry is written to a token
\* map; a name path whose non-blank segments are all generic names gives the
\* candidates of these segments, and a value is written under each of them.
C13_OnlyBlankPathGivesNoCandidates ==
    (slugPc = "done" /\ slugInput.kind = "path") =>
        /\ slugOut = <<>> <=> normalizePathNames(slugInput.names) = <<>>
        /\ AssignedUnderCandidates = EmptyMap <=> slugOut = <<>>
        /\ AllGeneric(slugInput.names) =>
              /\ slugOut = collectSlugVariants(normalizePathNames(slugInput.names))
              /\ DOMAIN AssignedUnderCandidates = Range(slugOut)

W_frame_group == <<"f","r","a","m","e","-","g","r","o","u","p">>

\* ["Frame", "Group"]: both segments are generic names and both are kept
C13_Witness ==
    /\ slugPc = "done"
    /\ slugInput.kind = "path"
    /\ normalizePathNames(slugInput.names) # <<>>
    /\ AllGeneric(slugInput.names)
    /\ slugOut = <<W_frame_group, W_frame, W_group>>
    /\ DOMAIN AssignedUnderCandidates = {W_frame_group, W_frame, W_group}

(***************************************************************************)
(* C14: the match step of a classified stylesheet variable                 *)
(***************************************************************************)
\* the matching loop has run
AfterMatch == updPc \in {"backup", "write", "done"}

\* the index of the first candidate that is a key of the map, 0 when none is
FirstHit(map, slugCandidates) ==
    LET hits == {k \in 1..Len(slugCandidates) : slugCandidates[k] \in DOMAIN map}
    IN  IF hits = {} THEN 0 ELSE MinOf(hits)

\* the text of the i-th variable statement of a stylesheet
StatementText(content, i) ==
    SubSeq(content, DeclMatches(content, 1)[i].start, DeclMatches(content, 1)[i].end)

\* what the statement says of the i-th declared variable of kind type
MatchedAsStated(v, i, type) ==
    LET slugCandidates == buildVarSlugCandidates(v.varName)
        map            == TokenMapOfType(updAcc, type)
        hit            == FirstHit(map, slugCandidates)
    IN  IF hit = 0
        THEN /\ v.varName \notin DOMAIN updUpdates
             /\ updPc = "done" => StatementText(scssFile.text, i) = StatementText(updContent, i)
        ELSE /\ v.varName \in DOMAIN updUpdates
             /\ updUpdates[v.varName] = map[slugCandidates[hit]]

\* C14: for every classified variable of the stylesheet, the update recorded
\* is the value that the token map of the variable's kind holds for the first
\* of its slug candidates present in that map; when no candidate is present,
\* no update is recorded and the statement is unchanged in the output text.
C14_FirstCandidateOfOwnKind ==
    AfterMatch =>
        \A i \in 1..Len(parseScssVars(updContent)) :
            LET v    == parseScssVars(updContent)[i]
                type == classifyVar(v.varName, v.value)
            IN  type # NoType => MatchedAsStated(v, i, type)

(***************************************************************************)
(* C15: replaceScss rewrites the changed statements and nothing else       *)
(***************************************************************************)
\* the statements of updContent that have an update with another value
RewrittenStatements ==
    {i \in 1..Len(DeclMatches(updContent, 1)) :
        /\ DeclMatches(updContent, 1)[i].name \in DOMAIN updUpdates
        /\ Trim(DeclMatches(updContent, 1)[i].value)
              # Trim(updUpdates[DeclMatches(updContent, 1)[i].name])}

\* the text between the i-th statement and the next one (i = 0: before the first)
GapText(content, i) ==
    LET ms   == DeclMatches(content, 1)
        from == IF i = 0 THEN 1 ELSE ms[i].end + 1
        to   == IF i = Len(ms) THEN Len(content) ELSE ms[i + 1].start - 1
    IN  SubSeq(content, from, to)

\* the statement replaceScss writes for the i-th statement of updContent
NewStatement(i) ==
    DeclMatches(updContent, 1)[i].name \o <<":", " ">>
        \o updUpdates[DeclMatches(updContent, 1)[i].name] \o <<";">>

\* the text is text of the input with the statements in rewritten replaced
RewritesOnly(text, rewritten) ==
    /\ Len(DeclMatches(text, 1)) = Len(DeclMatches(updContent, 1))
    /\ \A i \in 0..Len(DeclMatches(updContent, 1)) : GapText(text, i) = GapText(updContent, i)
    /\ \A i \in 1..Len(DeclMatches(updContent, 1)) :
          StatementText(text, i) = IF i \in rewritten THEN NewStatement(i)
                                   ELSE StatementText(updContent, i)

\* C15: replaceScss rewrites exactly the statements whose name has an update
\* with another trimmed value; the count it reports is their number, the text
\* outside them is the input's, and with no such statement the count is 0, the
\* text is the input and the file is not written.
C15_OnlyChangedStatementsRewritten ==
    updPc = "done" =>
        /\ replaceScss(updContent, updUpdates).changed = Cardinality(RewrittenStatements)
        /\ RewritesOnly(replaceScss(updContent, updUpdates).text, RewrittenStatements)
        /\ scssFile.text = replaceScss(updContent, updUpdates).text
        /\ scssWrites = IF RewrittenStatements = {} THEN 0 ELSE 1
        /\ RewrittenStatements = {} => replaceScss(updContent, updUpdates).text = updContent

\* '--greyscale--900: #000000;' with the update #1a1a1a: one statement is
\* rewritten, the two other statements and the text around them are kept
C15_Witness ==
    /\ updPc = "done"
    /\ Contains(updContent, <<"-","-","g","r","e","y","s","c","a","l","e","-","-","9","0","0",":"," ","#","0","0","0","0","0","0",";">>)
    /\ updUpdates = (<<"-","-","g","r","e","y","s","c","a","l","e","-","-","9","0","0">> :> <<"#","1","a","1","a","1","a">>)
    /\ replaceScss(updContent, updUpdates).changed = 1
    /\ Len(DeclMatches(updContent, 1)) = 3
    /\ scssWrites = 1
    /\ Contains(scssFile.text, <<"-","-","g","r","e","y","s","c","a","l","e","-","-","9","0","0",":"," ","#","1","a","1","a","1","a",";">>)
    /\ Len(scssFile.text) = Len(updContent)

(***************************************************************************)
(* C16: a value shaped like a color makes the variable a color             *)
(***************************************************************************)
HexDigits == {"0", "1", "2", "3", "4", "5", "6", "7", "8", "9",
              "a", "b", "c", "d", "e", "f", "A", "B", "C", "D", "E", "F"}

\* a trimmed value that is # and three or six hex digits, or starts with
\* rgb( or rgba(, in either case of the letters
ColorShaped(value) ==
    \/ /\ Len(Trim(value)) \in {4, 7}
       /\ Trim(value)[1] = "#"
       /\ \A i \in 2..Len(Trim(value)) : Trim(value)[i] \in HexDigits
    \/ \E n \in {4, 5} :
          /\ Len(Trim(value)) >= n
          /\ ToLower(SubSeq(Trim(value), 1, n)) \in {<<"r","g","b","(">>, <<"r","g","b","a","(">>}

DeclaredOnce(varName) ==
    Cardinality({i \in 1..Len(parseScssVars(updContent)) :
                    parseScssVars(updContent)[i].varName = varName}) = 1

\* C16: every variable of the stylesheet whose trimmed value is a 3- or
\* 6-digit hex color or starts with rgb( / rgba( is classified 'color',
\* whatever its name is, and the update of a variable declared once is then
\* the first of its candidates that the color map holds.
C16_ColorValueGivesColor ==
    AfterMatch =>
        \A i \in 1..Len(parseScssVars(updContent)) :
            LET v == parseScssVars(updContent)[i]
                hit == FirstHit(updAcc.colorsBySlug, buildVarSlugCandidates(v.varName))
            IN  ColorShaped(v.value) =>
                    /\ classifyVar(v.varName, v.value) = "color"
                    /\ DeclaredOnce(v.varName) =>
                          IF hit = 0 THEN v.varName \notin DOMAIN updUpdates
                          ELSE /\ v.varName \in DOMAIN updUpdates
                               /\ updUpdates[v.varName]
                                     = updAcc.colorsBySlug[buildVarSlugCandidates(v.varName)[hit]]

\* '--my-random-name: #ff00aa;': no color keyword in the name, the color of
\* the candidate name is taken
C16_Witness ==
    /\ AfterMatch
    /\ parseScssVars(updContent) = <<[varName |-> <<"-","-","m","y","-","r","a","n","d","o","m","-","n","a","m","e">>, value |-> <<"#","f","f","0","0","a","a">>]>>
    /\ ColorShaped(<<"#","f","f","0","0","a","a">>)
    /\ updUpdates = (<<"-","-","m","y","-","r","a","n","d","o","m","-","n","a","m","e">> :> <<"#","0","0","f","f","0","0">>)

(***************************************************************************)
(* C17: a value shaped like a shadow                                       *)
(***************************************************************************)
\* a color (# or rgb) together with two or more pixel lengths, in any order
ShadowShaped(value) ==
    /\ \/ Contains(ToLower(value), <<"#">>)
       \/ Contains(ToLower(value), <<"r","g","b">>)
    /\ Cardinality({j \in 1..(Len(value) - 2) :
                       IsDigit(value[j]) /\ ToLower(SubSeq(value, j + 1, j + 2)) = <<"p","x">>}) >= 2

\* C17: every variable of the stylesheet whose value is a color together with
\* two or more pixel lengths, the color before or after the lengths, is
\* classified 'shadow', whatever its name is.
C17_ShadowValueGivesShadow ==
    AfterMatch =>
        \A i \in 1..Len(parseScssVars(updContent)) :
            ShadowShaped(parseScssVars(updContent)[i].value) =>
                classifyVar(parseScssVars(updContent)[i].varName,
                            parseScssVars(updContent)[i].value) = "shadow"

(***************************************************************************)
(* C18: the font size and the font usage of a text node                    *)
(***************************************************************************)
\* the places of the nodes of a tree, as child indices from the root
RECURSIVE PathsOf(_)
PathsOf(node) ==
    {<<>>} \cup UNION { {<<i>> \o q : q \in PathsOf(node.children[i])} :
                          i \in 1..Len(node.children) }

\* the visible text nodes of the frame that have a style with fontSize > 0
SizedTextPaths ==
    {p \in PathsOf(frame) :
        /\ VisibleAlong(p)
        /\ NodeAt(frame, p).type = "TEXT"
        /\ NodeAt(frame, p).style # NoStyle
        /\ NodeAt(frame, p).style.fontSize # Undef
        /\ Lt(Zero, NodeAt(frame, p).style.fontSize)}

\* '#{remD(Npx)}' for a desktop text and '#{rem(Npx)}' otherwise
StatedFontSize(p) ==
    LET fontSize == NodeAt(frame, p).style.fontSize
        hint     == ToLower(Join(NamesAlong(frame, p), <<"/">>))
        n        == IntToStr(MathRound(fontSize)) \o <<"p","x">>
    IN  IF Contains(hint, <<"d","e","s","k","t","o","p">>) \/ ~Lt(fontSize, FromInt(20))
        THEN <<"#","{","r","e","m","D","(">> \o n \o <<")","}">>
        ELSE <<"#","{","r","e","m","(">> \o n \o <<")","}">>

SlugsOfPath(p) == Range(buildSlugCandidates(NamesAlong(frame, p)))

\* the indices of the writes of a kind that the node at p made
WritesOf(p, kind) ==
    {i \in 1..Len(walkAcc.log) : walkAcc.log[i].node = p /\ walkAcc.log[i].kind = kind}

\* a later write of the kind under the slug
OverwrittenAfter(i, kind, k) ==
    \E j \in (i + 1)..Len(walkAcc.log) :
        walkAcc.log[j].kind = kind /\ k \in SlugsOfPath(walkAcc.log[j].node)

\* C18: every visible TEXT node with style.fontSize > 0 writes, under every
\* slug candidate of its ancestry path, '#{remD(Npx)}' when the lowercased
\* path holds 'desktop' or fontSize >= 20 and '#{rem(Npx)}' otherwise, N the
\* rounded font size, and the value stays unless a later text node writes the
\* slug; a node whose style names a family records family, weight, italic.
C18_FontSizeAndFontUsage ==
    walkPc = "done" =>
        \A p \in SizedTextPaths :
            /\ SlugsOfPath(p) # {} =>
                  /\ Cardinality(WritesOf(p, "fontSize")) = 1
                  /\ \A i \in WritesOf(p, "fontSize") :
                        /\ walkAcc.log[i].value = StatedFontSize(p)
                        /\ \A k \in SlugsOfPath(p) :
                              /\ k \in DOMAIN walkAcc.fontSizeBySlug
                              /\ \/ walkAcc.fontSizeBySlug[k] = StatedFontSize(p)
                                 \/ OverwrittenAfter(i, "fontSize", k)
            /\ NodeAt(frame, p).style.fontFamily # "" =>
                  \E f \in Range(walkAcc.fonts) :
                      /\ f.family = NodeAt(frame, p).style.fontFamily
                      /\ f.italic = NodeAt(frame, p).style.italic
                      /\ NodeAt(frame, p).style.fontWeight # 0 =>
                            f.weight = NodeAt(frame, p).style.fontWeight

\* a frame with the one text node 'Mobile/Body', 14 px, Inter 400
C18_Witness ==
    /\ walkPc = "done"
    /\ Len(frame.children) = 1
    /\ SizedTextPaths = {<<1>>}
    /\ NodeAt(frame, <<1>>).name = <<"M","o","b","i","l","e","/","B","o","d","y">>
    /\ NodeAt(frame, <<1>>).style.fontSize = FromInt(14)
    /\ walkAcc.fontSizeBySlug = (<<"m","o","b","i","l","e","-","b","o","d","y">> :> <<"#","{","r","e","m","(","1","4","p","x",")","}">>) @@ (<<"m","o","b","i","l","e">> :> <<"#","{","r","e","m","(","1","4","p","x",")","}">>) @@ (<<"b","o","d","y">> :> <<"#","{","r","e","m","(","1","4","p","x",")","}">>)
    /\ walkAcc.fonts = <<[family |-> "Inter", weight |-> 400, italic |-> FALSE]>>

(***************************************************************************)
(* C19: the line height of a text style                                    *)
(***************************************************************************)
\* the visible text nodes of the frame that have a style
StyledTextPaths ==
    {p \in PathsOf(frame) :
        /\ VisibleAlong(p)
        /\ NodeAt(frame, p).type = "TEXT"
        /\ NodeAt(frame, p).style # NoStyle}

HasLineHeightPx(style) == style.lineHeightPx # Undef /\ Lt(Zero, style.lineHeightPx)

HasLineHeightPercent(style) ==
    style.lineHeightPercentFontSize # Undef /\ style.lineHeightPercentFontSize # Zero

\* the wrapped length of a line height of n pixels, wrapped like the font size
WrappedLength(p, n) ==
    LET style == NodeAt(frame, p).style
        hint  == ToLower(Join(NamesAlong(frame, p), <<"/">>))
        big   == style.fontSize # Undef /\ Lt(Zero, style.fontSize)
                    /\ ~Lt(style.fontSize, FromInt(20))
        text  == IntToStr(MathRound(n)) \o <<"p","x">>
    IN  IF Contains(hint, <<"d","e","s","k","t","o","p">>) \/ big
        THEN <<"#","{","r","e","m","D","(">> \o text \o <<")","}">>
        ELSE <<"#","{","r","e","m","(">> \o text \o <<")","}">>

\* percent / 100 x fontSize, in pixels
PercentInPixels(style) ==
    Mul(Mul(style.lineHeightPercentFontSize, <<1, 100>>),
        IF style.fontSize = Undef THEN Zero ELSE style.fontSize)

\* percent / 100 with at most three decimals and no trailing zeros
RatioText(style) ==
    LET t     == Thousandths(Mul(style.lineHeightPercentFontSize, <<1, 100>>))
        whole == IntToStr(t \div 1000)
        frac  == t % 1000
    IN  IF frac = 0 THEN whole
        ELSE IF frac % 100 = 0 THEN whole \o <<".">> \o IntToStr(frac \div 100)
        ELSE IF frac % 10 = 0
             THEN whole \o <<".">> \o (IF frac < 100 THEN <<"0">> ELSE <<>>)
                        \o IntToStr(frac \div 10)
        ELSE whole \o <<".">> \o (IF frac < 10 THEN <<"0","0">>
                                  ELSE IF frac < 100 THEN <<"0">> ELSE <<>>)
                   \o IntToStr(frac)

\* the values of the line-height writes of the node at p
LineHeightsOf(p) == {walkAcc.log[i].value : i \in WritesOf(p, "lineHeight")}

\* C19 as stated: the line-height token of a text style is the wrapped pixel
\* line height when one is present and > 0; otherwise, with a percent line
\* height, the wrapped length of percent / 100 x fontSize pixels; otherwise
\* there is no line-height token.
C19_PercentBecomesPixels ==
    walkPc = "done" =>
        \A p \in StyledTextPaths :
            SlugsOfPath(p) # {} =>
                LineHeightsOf(p) =
                    IF HasLineHeightPx(NodeAt(frame, p).style)
                    THEN {WrappedLength(p, NodeAt(frame, p).style.lineHeightPx)}
                    ELSE IF HasLineHeightPercent(NodeAt(frame, p).style)
                    THEN {WrappedLength(p, PercentInPixels(NodeAt(frame, p).style))}
                    ELSE {}

\* C19 amended: the line-height token of a text style is the wrapped pixel
\* line height when one is present and > 0; otherwise, with a percent line
\* height, the unitless ratio percent / 100 with at most three decimals;
\* otherwise there is no line-height token.
C19_PercentBecomesRatio ==
    walkPc = "done" =>
        \A p \in StyledTextPaths :
            SlugsOfPath(p) # {} =>
                /\ LineHeightsOf(p) =
                      IF HasLineHeightPx(NodeAt(frame, p).style)
                      THEN {WrappedLength(p, NodeAt(frame, p).style.lineHeightPx)}
                      ELSE IF HasLineHeightPercent(NodeAt(frame, p).style)
                      THEN {RatioText(NodeAt(frame, p).style)}
                      ELSE {}
                /\ \A i \in WritesOf(p, "lineHeight") : \A k \in SlugsOfPath(p) :
                      /\ k \in DOMAIN walkAcc.lineHeightBySlug
                      /\ \/ walkAcc.lineHeightBySlug[k] = walkAcc.log[i].value
                         \/ OverwrittenAfter(i, "lineHeight", k)

\* a text of 14 px with the percent line height 150 and no pixel line height
C19_Witness ==
    /\ walkPc = "done"
    /\ StyledTextPaths = {<<>>}
    /\ ~HasLineHeightPx(frame.style)
    /\ frame.style.lineHeightPercentFontSize = FromInt(150)
    /\ frame.style.fontSize = FromInt(14)
    /\ LineHeightsOf(<<>>) = {<<"1",".","5">>}
    /\ DOMAIN walkAcc.lineHeightBySlug = SlugsOfPath(<<>>)
    /\ \A k \in SlugsOfPath(<<>>) : walkAcc.lineHeightBySlug[k] = <<"1",".","5">>

(***************************************************************************)
(* C20: a FLOAT variable with a line-height keyword                        *)
(***************************************************************************)
\* a slug candidate that carries line-height, leading or lh
HasLineHeightKeyword(slugs) ==
    \E i \in 1..Len(slugs) :
        \/ Contains(slugs[i], <<"l","i","n","e","-","h","e","i","g","h","t">>)
        \/ Contains(slugs[i], <<"l","e","a","d","i","n","g">>)
        \/ <<"l","h">> \in Range(SplitOn(slugs[i], "-", <<>>))

\* the value of the variable in its selected mode is a positive number
IsPositiveFloat(variable, collectionMap) ==
    /\ variable.resolvedType = "FLOAT"
    /\ chooseVariableModeId(variable, collectionMap) # NoMode
    /\ IsNum(ValueInMode(variable.valuesByMode, chooseVariableModeId(variable, collectionMap)))
    /\ Lt(Zero, ValueInMode(variable.valuesByMode,
                            chooseVariableModeId(variable, collectionMap)).num)

\* C20: every FLOAT variable of the fetched catalog with a positive number and
\* a line-height keyword in its slug candidates is written to the line-height
\* map under its candidates, also when its name holds a font or text keyword.
C20_LineHeightKeywordWins ==
    CatalogFetched =>
        \A i \in 1..Len(updMeta.variables) :
            LET variable == updMeta.variables[i]
                slugs    == buildSlugCandidates(NameSegments(variable.name))
            IN  (IsPositiveFloat(variable, MapById(updMeta.collections))
                    /\ HasLineHeightKeyword(slugs))
                => Range(slugs) \subseteq DOMAIN updVariableTokens.lineHeightBySlug

(***************************************************************************)
(* C21: the mode chooseVariableModeId selects                              *)
(***************************************************************************)
ModeIdsOf(values) == {values[i].modeId : i \in 1..Len(values)}

ChoseMode == fnPc = "done" /\ fnName = "chooseVariableModeId"

\* C21: chooseVariableModeId returns the default mode id of the variable's
\* collection whenever valuesByMode has an entry for it, whatever the
\* entry's value (0, false and the empty string included), otherwise the
\* first mode id of valuesByMode, and no mode only for an empty valuesByMode.
C21_DefaultModeWheneverPresent ==
    ChoseMode =>
        LET values == fnArgs[1].valuesByMode
            collectionMap == fnArgs[2]
            preferred == IF fnArgs[1].variableCollectionId \in DOMAIN collectionMap
                         THEN collectionMap[fnArgs[1].variableCollectionId].defaultModeId
                         ELSE NoMode
        IN  IF values = <<>> THEN fnResult = NoMode
            ELSE IF preferred \in ModeIdsOf(values) THEN fnResult = preferred
            ELSE fnResult = values[1].modeId

(***************************************************************************)
(* C22: the weight of a font usage record                                  *)
(***************************************************************************)
\* the keyword table, compound keywords before the words they end with
WeightKeywords ==
    << [word |-> <<"t","h","i","n">>, weight |-> 100],
       [word |-> <<"e","x","t","r","a","l","i","g","h","t">>, weight |-> 200],
       [word |-> <<"u","l","t","r","a","l","i","g","h","t">>, weight |-> 200],
       [word |-> <<"s","e","m","i","b","o","l","d">>, weight |-> 600],
       [word |-> <<"d","e","m","i","b","o","l","d">>, weight |-> 600],
       [word |-> <<"e","x","t","r","a","b","o","l","d">>, weight |-> 800],
       [word |-> <<"u","l","t","r","a","b","o","l","d">>, weight |-> 800],
       [word |-> <<"l","i","g","h","t">>, weight |-> 300],
       [word |-> <<"r","e","g","u","l","a","r">>, weight |-> 400],
       [word |-> <<"b","o","o","k">>, weight |-> 400],
       [word |-> <<"n","o","r","m","a","l">>, weight |-> 400],
       [word |-> <<"m","e","d","i","u","m">>, weight |-> 500],
       [word |-> <<"b","o","l","d">>, weight |-> 700],
       [word |-> <<"b","l","a","c","k">>, weight |-> 900],
       [word |-> <<"h","e","a","v","y">>, weight |-> 900] >>

RECURSIVE WeightByKeyword(_, _)
WeightByKeyword(n, i) ==
    IF i > Len(WeightKeywords) THEN 400
    ELSE IF Contains(n, WeightKeywords[i].word) THEN WeightKeywords[i].weight
    ELSE WeightByKeyword(n, i + 1)

RecordedFont == fnPc = "done" /\ fnName = "fontOf"

\* C22: the weight of the font usage record of a text node is the explicit
\* numeric fontWeight when present, otherwise the weight of the keyword in
\* the node name (thin 100, extralight/ultralight 200, light 300,
\* regular/book/normal 400, medium 500, semibold/demibold 600, bold 700,
\* extrabold/ultrabold 800, black/heavy 900), and 400 without a keyword.
C22_WeightOfKeyword ==
    RecordedFont =>
        fnResult.weight =
            IF fnArgs[1].style.fontWeight # 0 THEN fnArgs[1].style.fontWeight
            ELSE WeightByKeyword(ToLower(fnArgs[1].name), 1)

\* an inferred weight is one of 100, 200, ..., 900
C22_InferredWeightIsStandard ==
    (RecordedFont /\ fnArgs[1].style.fontWeight = 0)
        => fnResult.weight \in {100 * k : k \in 1..9}

(***************************************************************************)
(* C23: the shadow value of a node with a malformed effect                 *)
(***************************************************************************)
HasColor(e) == IsShadow(e) /\ e.color # NoColor

\* the visible shadow effects that have a color, in effect-list order
ColoredShadows(effects) == SelectSeq(effects, HasColor)

\* 'offsetX offsetY blur color' of every colored shadow, joined by ', '
WalkerQuadruples(effects, cumulativeOpacity) ==
    IF ColoredShadows(effects) = <<>> THEN NULL
    ELSE Join([i \in 1..Len(ColoredShadows(effects)) |->
                  ShadowPart(ColoredShadows(effects)[i], cumulativeOpacity)], <<",", " ">>)

StyleQuadruples(effects) ==
    IF ColoredShadows(effects) = <<>> THEN NULL
    ELSE Join([i \in 1..Len(ColoredShadows(effects)) |->
                  StyleShadowPart(ColoredShadows(effects)[i])], <<",", " ">>)

\* C23: the shadow value of traverseFrame and of extractShadowFromStyleNode
\* is the ', '-joined list of the quadruples 'offsetX offsetY blur color' of
\* the visible DROP_SHADOW / INNER_SHADOW effects in list order, each with a
\* non-empty color; a visible shadow without a color adds no quadruple.
C23_ColorlessShadowAddsNothing ==
    /\ (fnPc = "done" /\ fnName = "shadowOfNode")
          => fnResult = WalkerQuadruples(fnArgs[1], fnArgs[2])
    /\ (fnPc = "done" /\ fnName = "extractShadowFromStyleNode")
          => fnResult = StyleQuadruples(fnArgs[1].effects)

(***************************************************************************)
(* C24: the value a slug holds after the walk                              *)
(***************************************************************************)
RECURSIVE PreOrderContributions(_, _, _)
RECURSIVE PreOrderOfChildren(_, _, _, _)

\* the contributions of the visible nodes, pre-order and depth-first with the
\* children in their given order, each with the slug candidates of the
\* ancestry path of its node
PreOrderContributions(node, ancestryNames, inheritedOpacity) ==
    IF node = NoNode \/ node.visible = FALSE THEN <<>>
    ELSE LET currentNames == IF node.name # <<>> THEN Append(ancestryNames, node.name)
                             ELSE ancestryNames
             cumulativeOpacity == clamp01(Mul(inheritedOpacity, effectiveNodeOpacity(node)))
             own == NodeContributions(node, ToLower(Join(currentNames, <<"/">>)),
                                      cumulativeOpacity)
         IN  [i \in 1..Len(own) |->
                 [kind |-> own[i].kind, value |-> own[i].value,
                  slugs |-> Range(buildSlugCandidates(currentNames))]]
             \o PreOrderOfChildren(node.children, currentNames, cumulativeOpacity, 1)

PreOrderOfChildren(children, names, opacity, i) ==
    IF i > Len(children) THEN <<>>
    ELSE PreOrderContributions(children[i], names, opacity)
             \o PreOrderOfChildren(children, names, opacity, i + 1)

TokenKinds == {"color", "fontSize", "lineHeight", "shadow"}

\* the places of the contributions of one kind whose candidates include the slug
ContributionsTo(contribs, tokenKind, key) ==
    {i \in 1..Len(contribs) : contribs[i].kind = tokenKind /\ key \in contribs[i].slugs}

LastOf(places) == CHOOSE i \in places : \A j \in places : j <= i

\* the map of one kind holds exactly the slugs of the contributions of that
\* kind, each with the value of the last of them
HoldsLastContribution(map, contribs, tokenKind) ==
    /\ DOMAIN map = UNION {contribs[i].slugs : i \in {j \in 1..Len(contribs) : contribs[j].kind = tokenKind}}
    /\ \A key \in DOMAIN map :
           map[key] = contribs[LastOf(ContributionsTo(contribs, tokenKind, key))].value

\* C24: after traverseFrame has walked a tree, every contribution is written
\* under all slug candidates of its node's ancestry path, and each slug of
\* each token map holds the value of the last contribution, in pre-order
\* depth-first order (fills before strokes, paints and gradient stops in list
\* order), among the contributions whose candidates include the slug.
C24_LastContributionWins ==
    walkPc = "done" =>
        \A tk \in TokenKinds :
            HoldsLastContribution(walkAcc[MapOfKind(tk)],
                                  PreOrderContributions(frame, <<>>, One), tk)

\* a walk in which a slug received two different colours, the second of them
\* from another node than the first, and holds the second
C24_Witness ==
    /\ walkPc = "done"
    /\ \E key \in DOMAIN walkAcc.colorsBySlug :
           \E i, j \in ContributionsTo(PreOrderContributions(frame, <<>>, One), "color", key) :
               /\ i < j
               /\ PreOrderContributions(frame, <<>>, One)[i].value
                      # PreOrderContributions(frame, <<>>, One)[j].value
               /\ PreOrderContributions(frame, <<>>, One)[i].slugs
                      # PreOrderContributions(frame, <<>>, One)[j].slugs
               /\ j = LastOf(ContributionsTo(PreOrderContributions(frame, <<>>, One), "color", key))
               /\ walkAcc.colorsBySlug[key] = PreOrderContributions(frame, <<>>, One)[j].value

(***************************************************************************)
(* C25: the tokens of a style node and of the same node walked as a root   *)
(***************************************************************************)
\* the token maps traverseFrame fills when the node is visited alone
WalkedAlone(node) == traverseFrame(node, createTraversalAccumulator, <<>>, One, <<>>)

MapsOfStyleType(styleType) ==
    IF styleType = "FILL" THEN {"colorsBySlug"}
    ELSE IF styleType = "TEXT" THEN {"fontSizeBySlug", "lineHeightBySlug"}
    ELSE {"shadowsBySlug"}

\* C25: for the representative node of a FILL, TEXT or EFFECT style, the
\* color, font-size, line-height and shadow values collectStyleTokens derives
\* equal the values traverseFrame derives for the same node visited alone as
\* a root under the same name path.
C25_StyleTokensEqualWalkerTokens ==
    (fnPc = "done" /\ fnName = "styleTokensOfStyle") =>
        \A field \in MapsOfStyleType(fnArgs[1].style_type) :
            fnResult[field] = WalkedAlone(fnArgs[2])[field]

(***************************************************************************)
(* C26: the font size of a FLOAT variable and of a text node               *)
(***************************************************************************)
\* the font size traverseFrame writes for a text node of this name path and
\* this size
WalkerFontSize(names, size) ==
    wrapRem(px(size),
            IsDesktopText(ToLower(Join(names, <<"/">>)), [BodyStyle EXCEPT !.fontSize = size]))

RoutedToFontSize ==
    /\ fnPc = "done"
    /\ fnName = "floatContribution"
    /\ fnResult # NoContribution
    /\ fnResult.kind = "fontSize"

\* C26: a FLOAT variable routed to font size is formatted with the desktop /
\* mobile decision of a text node of the tree walker: for the same name
\* path and size both give the same string, '#{remD(Npx)}' for a size of 20
\* or more or a name containing 'desktop', '#{rem(Npx)}' otherwise.
C26_VariableFontSizeAsWalker ==
    RoutedToFontSize =>
        fnResult.value = WalkerFontSize(NameSegments(fnArgs[1]), fnArgs[2])

(***************************************************************************)
(* C27: the calls and the waits of fetchWithRetry                          *)
(***************************************************************************)
RetryEnded == retryPc = "done"

FailedCalls == {k \in 1..Len(retryCalls) : ~IsOk(retryCalls[k])}

\* C27: with attempts >= 1 fetchWithRetry makes at most `attempts` fetch
\* calls, one at a time; it returns the response of the first call that
\* succeeds with an ok status and calls no more; when all `attempts` calls
\* fail it throws the error of the last call; it waits delayMs x k after the
\* k-th failed call only when k < attempts, never after the last call.
C27_RetryProtocol ==
    /\ Len(retryCalls) + retryInFlight <= retryAttempts
    /\ retryInFlight <= 1
    /\ \A k \in 1..(Len(retryCalls) - 1) : k \in FailedCalls
    /\ (Len(retryCalls) \notin FailedCalls /\ retryCalls # <<>>)
           => (RetryEnded /\ retryOutcome = [kind |-> "returned",
                                             res |-> retryCalls[Len(retryCalls)]])
    /\ (RetryEnded /\ retryOutcome.kind = "threw")
           => /\ Len(retryCalls) = retryAttempts
              /\ FailedCalls = 1..retryAttempts
              /\ retryOutcome.error = ErrorOfCall(retryCalls[retryAttempts])
    /\ RetryEnded => retryOutcome.kind \in {"returned", "threw"}
    /\ \A i \in 1..Len(retryWaits) :
           retryWaits[i] = [after |-> i, ms |-> retryDelayMs * i] /\ i < retryAttempts
    /\ Len(retryWaits) = Cardinality({k \in FailedCalls : k < retryAttempts})

\* three attempts that all failed: two waits, of 300 and 600 ms, and the
\* error of the third call thrown
C27_Witness ==
    /\ RetryEnded
    /\ retryAttempts = 3
    /\ retryDelayMs = 300
    /\ retryCalls = <<HttpError(500, <<>>), NetworkFailure, HttpError(404, <<>>)>>
    /\ retryWaits = <<[after |-> 1, ms |-> 300], [after |-> 2, ms |-> 600]>>
    /\ retryOutcome = [kind |-> "threw", error |-> <<"H","T","T","P"," ","4","0","4">>]

(***************************************************************************)
(* C28: a second update of the stylesheet with the same token maps         *)
(***************************************************************************)
\* parse, classify, match and write-back applied to a text
UpdatePass(text, acc) ==
    replaceScss(text, MatchUpdates(parseScssVars(text), 1, acc, <<>>))

\* C28: the stylesheet update is idempotent: applied to the output text of a
\* first application with the same token maps it reports 0 changed variables
\* and returns the text unchanged.
C28_UpdateIsIdempotent ==
    (updPc = "done" /\ scssFile # NoFile) =>
        /\ UpdatePass(scssFile.text, updAcc).changed = 0
        /\ UpdatePass(scssFile.text, updAcc).text = scssFile.text

(***************************************************************************)
(* C29: the families actionFonts attempts                                  *)
(***************************************************************************)
\* the distinct non-empty families of the usages found, in discovery order
RECURSIVE DistinctFamilies(_, _)
DistinctFamilies(found, seen) ==
    IF found = <<>> THEN seen
    ELSE DistinctFamilies(Tail(found),
             IF Trim(found[1].family) = <<>> \/ Trim(found[1].family) \in Range(seen)
             THEN seen ELSE Append(seen, Trim(found[1].family)))

DownloadedAttempts == {i \in 1..Len(fontAttempts) : fontAttempts[i].count > 0}
ManualAttempts == {i \in 1..Len(fontAttempts) : fontAttempts[i].count = 0}

\* C29: every distinct non-empty family the traversal found is attempted
\* exactly once, in discovery order, and ends as downloaded (at least one file
\* written) or as manual; a failure or an exception of one download does not
\* keep the following families from being attempted, and the counts returned
\* satisfy ok + manual = number of distinct families.
C29_EveryFamilyAttemptedOnce ==
    /\ Len(fontAttempts) <= Len(DistinctFamilies(fontFound, <<>>))
    /\ \A i \in 1..Len(fontAttempts) :
           /\ fontAttempts[i].name = DistinctFamilies(fontFound, <<>>)[i]
           /\ i \in DownloadedAttempts => fontAttempts[i].written >= 1
           /\ i \in ManualAttempts <=> fontAttempts[i].name \in fontManualSet
    /\ fontDownloaded = Cardinality(DownloadedAttempts)
    /\ fontPc \in {"done", "failed"}
           => Len(fontAttempts) = Len(DistinctFamilies(fontFound, <<>>))
    /\ fontPc = "done"
           => /\ fontResult.ok = Cardinality(DownloadedAttempts)
              /\ fontResult.manual = Cardinality(ManualAttempts)
              /\ fontResult.ok + fontResult.manual = Len(DistinctFamilies(fontFound, <<>>))

\* two families: the download of the first threw, the second was attempted
\* all the same and downloaded
C29_Witness ==
    /\ fontPc = "done"
    /\ Len(fontAttempts) = 2
    /\ fontAttempts[1].threw
    /\ fontAttempts[2].count > 0
    /\ fontResult = [kind |-> "returned", ok |-> 1, manual |-> 1]

(***************************************************************************)
(* C30: once exportIcons has returned, every icon node has exactly one row *)
(* and no two rows share a file base name, every node whose SVG export did *)
(* not succeed was retried as PNG with its own id and its own row, and the *)
(* returned ok count is the number of rows whose final status is success.  *)
(***************************************************************************)
IconReturned == iconPc = "done"

\* one row per node, the names pairwise distinct
C30_OneDistinctRowPerNode ==
    IconReturned =>
        /\ Len(iconResult.table) = Len(iconNodes)
        /\ \A i, j \in 1..Len(iconResult.table) :
               i # j => iconResult.table[i].name # iconResult.table[j].name

\* the ok count is the number of rows that ended in success
C30_OkCountsSuccessRows ==
    IconReturned =>
        iconResult.ok =
            Cardinality({i \in 1..Len(iconResult.table) : iconResult.table[i].status = "ok"})

\* a PNG attempt was made for row i with the id of node i
RetriedWithOwnId(i) ==
    \E k \in 1..Len(iconRetries) :
        iconRetries[k].row = i /\ iconRetries[k].id = iconNodes[i].idPath

C30_FailedSvgRetriedAsPng ==
    IconReturned =>
        /\ \A i \in 1..Len(iconResult.table) :
               iconResult.table[i].svg # "ok" => RetriedWithOwnId(i)
        /\ \A k \in 1..Len(iconRetries) :
               iconRetries[k].id = iconNodes[iconRetries[k].row].idPath

\* C30: the three parts together, at the return of exportIcons
C30_ExportIcons ==
    C30_OneDistinctRowPerNode /\ C30_OkCountsSuccessRows /\ C30_FailedSvgRetriedAsPng

\* with leaf names that slug to distinct bases the retries are all made
DistinctLeafSlugs ==
    \A i, j \in 1..Len(iconNodes) : i # j => LeafSlug(iconNodes[i]) # LeafSlug(iconNodes[j])

C30_RetriedWhenLeafSlugsDiffer == DistinctLeafSlugs => C30_FailedSvgRetriedAsPng

====
